---- MODULE Spec2Model ----
(***************************************************************************)
(* Model of the e-paper display server: the configuration (config.rs),     *)
(* the web routes that update it (web/routes.rs), the refresh pipeline     *)
(* (image_proc/), the panel driver and its controller (display/), and the  *)
(* refresh scheduler (scheduler.rs).                                       *)
(*                                                                         *)
(* Strings that the code parses or trims are sequences of one-character    *)
(* strings; strings it only compares are TLA+ strings.                     *)
(*                                                                         *)
(* Specifications: Spec (scheduler beside a route handler), SpecSched (the *)
(* scheduler alone, with and without the trigger channel), SpecWeb (a      *)
(* route handler alone), SpecDriver (the Epd7in3e driver called directly), *)
(* SpecBackoff (the backoff computation over every base interval),         *)
(* SpecExit (the scheduler and the return of main after shutdown),         *)
(* SpecDownload (the download functions called directly), SpecLoad         *)
(* (Config::load step by step and the lookups on what it accepts),         *)
(* SpecDither (dither_image pixel by pixel), SpecTransform (the sizes      *)
(* transform_image produces, with its f32 scale factors), SpecParse        *)
(* (parse_time on texts), SpecBusy                                         *)
(* and SpecBusyFair (the driver step by step with the polling loop of      *)
(* wait_busy_timeout).                                                     *)
(***************************************************************************)
EXTENDS Integers, Sequences, FiniteSets, TLC

VARIABLES
    config,     \* the Config behind Arc<RwLock<Config>>
    cfgLock,    \* the RwLock around it: the tasks holding a read guard
    failures,   \* Scheduler.consecutive_failures (AtomicU32)
    task,       \* per task: its position (pc), the operation it runs (op),
                \* the buffer it carries to the panel or the arguments of
                \* its call (buf), its last result (res)
    sched,      \* the scheduler: which run() it executes, the locals
                \* base_interval and interval, the outcome of its last refresh,
                \* the seconds left of the Sleep of its select! (timer)
    slot,       \* DisplayController.display: None or Some(the Epd7in3e)
    panel,      \* the tokio Mutex around the slot: the set of its holders
    bus,        \* the events of the operation last run: GPIO and SPI of a
                \* panel operation, requests and sleeps of a download; for
                \* a function called directly, what it returned
    shutdown,   \* the broadcast shutdown signal has been sent
    trigger     \* messages waiting in the mpsc trigger channel (capacity 1)

vars == <<config, cfgLock, failures, task, sched, slot, panel, bus, shutdown, trigger>>

\* Option and Result values: None (or Err), and Some(x) (or Ok(x))
None == <<>>

Some(x) == <<x>>

Unwrap(o) == o[1]

(***************************************************************************)
(* Bounds of the model.                                                    *)
(***************************************************************************)
\* failure counts explored by the scheduler of Spec, SpecSched and SpecWeb
MaxFailures == 2
\* failure counts explored by SpecBackoff (the exponent cap needs >= 11)
MaxBackoffFailures == 12
\* panel operations of Spec fail at one of their first MaxFault fallible steps
MaxFault == 2

\* the fallible steps of a driver call that are made to fail, one per call
MaxDriverFault == 60

\* the largest max_retries of a DownloadConfig
MaxRetries == 3

(***************************************************************************)
(* Text: str::trim, str::split(':'), u32::from_str.                        *)
(***************************************************************************)
Whitespace == {" ", "\t", "\n", "\r"}

Digits == <<"0", "1", "2", "3", "4", "5", "6", "7", "8", "9">>

IsDigit(c) == \E i \in 1..10 : Digits[i] = c

DigitValue(c) == (CHOOSE i \in 1..10 : Digits[i] = c) - 1

RECURSIVE TrimStart(_)
TrimStart(s) ==
    IF s # <<>> /\ Head(s) \in Whitespace THEN TrimStart(Tail(s)) ELSE s

RECURSIVE TrimEnd(_)
TrimEnd(s) ==
    IF s # <<>> /\ s[Len(s)] \in Whitespace
    THEN TrimEnd(SubSeq(s, 1, Len(s) - 1))
    ELSE s

\* str::trim
Trim(s) == TrimEnd(TrimStart(s))

\* str::split(sep).collect(): the fields between the separators
RECURSIVE SplitOn(_, _, _)
SplitOn(s, sep, cur) ==
    IF s = <<>> THEN <<cur>>
    ELSE IF Head(s) = sep THEN <<cur>> \o SplitOn(Tail(s), sep, <<>>)
    ELSE SplitOn(Tail(s), sep, Append(cur, Head(s)))

Split(s, sep) == SplitOn(s, sep, <<>>)

RECURSIVE DigitsValue(_, _)
DigitsValue(s, acc) ==
    IF s = <<>> THEN acc ELSE DigitsValue(Tail(s), acc * 10 + DigitValue(Head(s)))

\* <unsigned integer>::from_str: an optional '+', then one or more ASCII
\* digits; anything else is an error (None).  Overflow of the target type is
\* checked by the callers below.
ParseDigits(s) ==
    LET body == IF s # <<>> /\ Head(s) = "+" THEN Tail(s) ELSE s
    IN  IF body = <<>> \/ \E i \in 1..Len(body) : ~IsDigit(body[i])
        THEN None
        ELSE Some(DigitsValue(body, 0))

\* str::parse::<u32>().  The texts of the model have at most 6 digits, so the
\* u32 overflow error cannot occur.
ParseU32(s) == ParseDigits(s)

U16Max == 65535

\* str::parse::<u16>()
ParseU16(s) ==
    LET v == ParseDigits(s)
    IN  IF v # None /\ Unwrap(v) > U16Max THEN None ELSE v

(***************************************************************************)
(* config.rs: SchedulePeriod                                               *)
(***************************************************************************)
MinutesPerDay == 1440

\* SchedulePeriod::parse_time: Some(minutes since midnight), or None for Err
parse_time(time_str) ==
    LET parts == Split(time_str, ":")
    IN  IF Len(parts) # 2 THEN None
        ELSE LET hours == ParseU32(parts[1])
                 minutes == ParseU32(parts[2])
             IN  IF hours = None \/ minutes = None THEN None
                 ELSE IF Unwrap(hours) >= 24 \/ Unwrap(minutes) >= 60 THEN None
                 ELSE Some(Unwrap(hours) * 60 + Unwrap(minutes))

start_minutes(period) == parse_time(period.start_time)

end_minutes(period) == parse_time(period.end_time)

\* SchedulePeriod::spans_midnight (for a period whose times parse)
spans_midnight(period) == Unwrap(end_minutes(period)) <= Unwrap(start_minutes(period))

\* a contains_time whose periods include their end minute
contains_time_closed(period, time_minutes) ==
    LET start == start_minutes(period)
        end == end_minutes(period)
    IN  IF start = None \/ end = None THEN None
        ELSE IF spans_midnight(period)
             THEN Some(time_minutes >= Unwrap(start) \/ time_minutes <= Unwrap(end))
             ELSE Some(time_minutes >= Unwrap(start) /\ time_minutes <= Unwrap(end))

\* SchedulePeriod::contains_time: Some(bool), or None for Err
contains_time(period, time_minutes) ==
    LET start == start_minutes(period)
        end == end_minutes(period)
    IN  IF start = None \/ end = None THEN None
        ELSE IF spans_midnight(period)
             THEN Some(time_minutes >= Unwrap(start) \/ time_minutes < Unwrap(end))
             ELSE Some(time_minutes >= Unwrap(start) /\ time_minutes < Unwrap(end))

\* SchedulePeriod::validate: TRUE for Ok
period_validate(period) ==
    /\ start_minutes(period) # None
    /\ end_minutes(period) # None
    /\ ~(period.interval_min < 1 \/ period.interval_min > 1440)

(***************************************************************************)
(* config.rs: SchedulePlan                                                 *)
(***************************************************************************)
MidnightStr == <<"0", "0", ":", "0", "0">>

\* the minutes one period marks in the coverage table
PeriodMinutes(period) ==
    LET start == Unwrap(start_minutes(period))
        end == Unwrap(end_minutes(period))
    IN  IF spans_midnight(period)
        THEN (start .. MinutesPerDay - 1) \cup (0 .. end - 1)
        ELSE start .. end - 1

\* a marking loop that looks for gaps only
CoverageFromGapsOnly(periods, i, coverage) ==
    coverage \cup UNION {PeriodMinutes(periods[k]) : k \in i..Len(periods)}
       = 0 .. MinutesPerDay - 1

\* the marking loop of validate_coverage over periods[i..]: FALSE at the first
\* minute found already marked, else whether no minute is left unmarked
RECURSIVE CoverageFrom(_, _, _)
CoverageFrom(periods, i, coverage) ==
    IF i > Len(periods) THEN coverage = 0 .. MinutesPerDay - 1
    ELSE LET marks == PeriodMinutes(periods[i])
         IN  IF marks \cap coverage # {} THEN FALSE
             ELSE CoverageFrom(periods, i + 1, coverage \cup marks)

\* SchedulePlan::validate_coverage: TRUE for Ok
validate_coverage(plan) ==
    IF /\ Len(plan.periods) = 1
       /\ plan.periods[1].start_time = MidnightStr
       /\ plan.periods[1].end_time = MidnightStr
    THEN TRUE
    ELSE CoverageFrom(plan.periods, 1, {})

\* SchedulePlan::validate: TRUE for Ok
plan_validate(plan) ==
    /\ Trim(plan.name) # <<>>
    /\ plan.periods # <<>>
    /\ \A i \in 1..Len(plan.periods) : period_validate(plan.periods[i])
    /\ validate_coverage(plan)

\* SchedulePlan::get_interval_for_time
RECURSIVE IntervalFrom(_, _, _)
IntervalFrom(periods, i, time_minutes) ==
    IF i > Len(periods) THEN None
    ELSE IF contains_time(periods[i], time_minutes) = Some(TRUE)
         THEN Some(periods[i].interval_min)
    ELSE IntervalFrom(periods, i + 1, time_minutes)

get_interval_for_time(plan, time_minutes) ==
    LET found == IntervalFrom(plan.periods, 1, time_minutes)
    IN  IF found # None THEN Unwrap(found)
        ELSE IF plan.periods # <<>> THEN plan.periods[1].interval_min
        ELSE 60

\* SchedulePlan::get_period_for_time: Some(period), or None
RECURSIVE PeriodFrom(_, _, _)
PeriodFrom(periods, i, time_minutes) ==
    IF i > Len(periods) THEN None
    ELSE IF contains_time(periods[i], time_minutes) = Some(TRUE) THEN Some(periods[i])
    ELSE PeriodFrom(periods, i + 1, time_minutes)

\* a get_period_for_time that always takes the fallback
get_period_for_time_first(plan, time_minutes) ==
    IF plan.periods # <<>> THEN Some(plan.periods[1]) ELSE None

get_period_for_time(plan, time_minutes) ==
    LET found == PeriodFrom(plan.periods, 1, time_minutes)
    IN  IF found # None THEN found
        ELSE IF plan.periods # <<>> THEN Some(plan.periods[1])
        ELSE None

(***************************************************************************)
(* config.rs: Weekday, Config                                              *)
(***************************************************************************)
\* Weekday::all()
Weekdays ==
    <<"Monday", "Tuesday", "Wednesday", "Thursday", "Friday", "Saturday", "Sunday">>

WeekdaySet == {Weekdays[i] : i \in 1..Len(Weekdays)}

\* Weekday::short_name
short_name(day) ==
    CASE day = "Monday" -> "Mon"
      [] day = "Tuesday" -> "Tue"
      [] day = "Wednesday" -> "Wed"
      [] day = "Thursday" -> "Thu"
      [] day = "Friday" -> "Fri"
      [] day = "Saturday" -> "Sat"
      [] day = "Sunday" -> "Sun"

SchedulePeriod(start_time, end_time, interval_min) ==
    [start_time |-> start_time, end_time |-> end_time, interval_min |-> interval_min]

SchedulePlan(name, periods) == [name |-> name, periods |-> periods]

DefaultName == <<"D", "e", "f", "a", "u", "l", "t">>

\* SchedulePlan::default_plan
default_plan == SchedulePlan(DefaultName, <<SchedulePeriod(MidnightStr, MidnightStr, 60)>>)

default_schedule_plans == <<default_plan>>

\* default_day_assignments: a HashMap, here a function on the days it holds
default_day_assignments == [day \in WeekdaySet |-> DefaultName]

\* impl Default for Config
DefaultConfig ==
    [image_url |-> <<>>,
     refresh_interval_min |-> None,
     schedule |-> None,
     schedule_plans |-> default_schedule_plans,
     day_assignments |-> default_day_assignments,
     rotation |-> 0,
     mirror_h |-> FALSE,
     mirror_v |-> FALSE,
     scale_to_fit |-> TRUE,
     rotate_first |-> TRUE,
     display_width |-> 800,
     display_height |-> 480,
     web_port |-> 8888,
     verbose |-> FALSE]

\* a validate without the duplicate-name check
NoDuplicateNamesOff(plans) == TRUE

\* the duplicate-name check of Config::validate: HashSet::insert fails
NoDuplicateNames(plans) ==
    \A i, j \in 1..Len(plans) : i # j => plans[i].name # plans[j].name

\* Config::validate: TRUE for Ok
validate(c) ==
    /\ c.schedule_plans # <<>>
    /\ NoDuplicateNames(c.schedule_plans)
    /\ \A i \in 1..Len(c.schedule_plans) : plan_validate(c.schedule_plans[i])
    /\ \A i \in 1..Len(Weekdays) :
          /\ Weekdays[i] \in DOMAIN c.day_assignments
          /\ \E k \in 1..Len(c.schedule_plans) :
                c.schedule_plans[k].name = c.day_assignments[Weekdays[i]]
    /\ c.rotation \in {0, 90, 180, 270}
    /\ c.web_port # 0
    /\ ~(c.display_width < 100 \/ c.display_width > 2000)
    /\ ~(c.display_height < 100 \/ c.display_height > 2000)

\* Config::get_plan: Some(first plan of that name), or None
get_plan(c, name) ==
    IF \E k \in 1..Len(c.schedule_plans) : c.schedule_plans[k].name = name
    THEN LET k == CHOOSE k \in 1..Len(c.schedule_plans) :
                    /\ c.schedule_plans[k].name = name
                    /\ \A j \in 1..(k - 1) : c.schedule_plans[j].name # name
         IN  Some(c.schedule_plans[k])
    ELSE None

\* Config::get_plan_for_day
get_plan_for_day(c, day) ==
    IF day \in DOMAIN c.day_assignments THEN get_plan(c, c.day_assignments[day]) ELSE None

\* Config::get_current_interval, the clock (weekday, minute of day) an input
get_current_interval(c, day, current_minutes) ==
    LET plan == get_plan_for_day(c, day)
    IN  IF plan # None THEN get_interval_for_time(Unwrap(plan), current_minutes) ELSE 60

\* Config::get_current_period
get_current_period(c, day, current_minutes) ==
    LET plan == get_plan_for_day(c, day)
    IN  IF plan # None THEN get_period_for_time(Unwrap(plan), current_minutes) ELSE None

\* has_image_url as it would be without trim()
has_image_url_untrimmed(c) == c.image_url # <<>>

\* Config::has_image_url
has_image_url(c) == Trim(c.image_url) # <<>>

\* the is_default_plans test of the legacy schedule migration
IsDefaultPlansFull(c) ==
    /\ Len(c.schedule_plans) = 1
    /\ c.schedule_plans[1].name = DefaultName
    /\ Len(c.schedule_plans[1].periods) = 1
    /\ c.schedule_plans[1].periods[1].start_time = MidnightStr
    /\ c.schedule_plans[1].periods[1].end_time = MidnightStr
    /\ c.schedule_plans[1].periods[1].interval_min = 60

\* the is_default_plans test of the legacy refresh_interval_min migration
IsDefaultPlansInterval(c) ==
    /\ Len(c.schedule_plans) = 1
    /\ c.schedule_plans[1].name = DefaultName
    /\ Len(c.schedule_plans[1].periods) = 1
    /\ c.schedule_plans[1].periods[1].interval_min = 60

\* a migration that reads the legacy fields without take()
migrate_legacy_config_kept(c) ==
    LET m1 == c.schedule # None /\ Unwrap(c.schedule) # <<>> /\ IsDefaultPlansFull(c)
        c1 == [c EXCEPT !.schedule_plans =
                            IF m1 THEN <<SchedulePlan(DefaultName, Unwrap(c.schedule))>>
                            ELSE @]
        m2 == c1.refresh_interval_min # None /\ IsDefaultPlansInterval(c1)
        c2 == [c1 EXCEPT !.schedule_plans =
                             IF m2
                             THEN <<SchedulePlan(DefaultName,
                                        <<SchedulePeriod(MidnightStr, MidnightStr,
                                                         Unwrap(c1.refresh_interval_min))>>)>>
                             ELSE @]
    IN  IF m1 \/ m2 THEN [c2 EXCEPT !.day_assignments = default_day_assignments] ELSE c2

\* Config::migrate_legacy_config
migrate_legacy_config(c) ==
    LET m1 == c.schedule # None /\ Unwrap(c.schedule) # <<>> /\ IsDefaultPlansFull(c)
        c1 == [c EXCEPT !.schedule = None,
                        !.schedule_plans =
                            IF m1 THEN <<SchedulePlan(DefaultName, Unwrap(c.schedule))>>
                            ELSE @]
        m2 == c1.refresh_interval_min # None /\ IsDefaultPlansInterval(c1)
        c2 == [c1 EXCEPT !.refresh_interval_min = None,
                         !.schedule_plans =
                             IF m2
                             THEN <<SchedulePlan(DefaultName,
                                        <<SchedulePeriod(MidnightStr, MidnightStr,
                                                         Unwrap(c1.refresh_interval_min))>>)>>
                             ELSE @]
    IN  IF m1 \/ m2 THEN [c2 EXCEPT !.day_assignments = default_day_assignments] ELSE c2

\* Config::load on the deserialized file (None: unreadable or not JSON):
\* Some(config) for Ok, None for Err
load(file) ==
    IF file = None THEN None
    ELSE LET c == migrate_legacy_config(Unwrap(file))
         IN  IF validate(c) THEN Some(c) ELSE None

\* main: Config::load(..).unwrap_or_else(|_| Config::default())
StartupConfig(file) ==
    LET loaded == load(file) IN IF loaded # None THEN Unwrap(loaded) ELSE DefaultConfig

(***************************************************************************)
(* display/gpio.rs, display/spi.rs, display/epd7in3e.rs: the panel driver. *)
(* A driver operation is a sequence of primitive steps on the pins and the *)
(* bus.  The events it produces:                                           *)
(*   <<"pwr", b>>  <<"rst", b>>  <<"dc", b>>   a pin is driven             *)
(*   <<"busy">>                                wait_busy returned Ok       *)
(*   <<"spi", bytes>>                          one Spi::write returned Ok  *)
(* wait_busy and Spi::write can fail; `fault` numbers the fallible step of *)
(* the operation that fails (0: none does).                                *)
(***************************************************************************)
WIDTH == 800

HEIGHT == 480

BUFFER_SIZE == (WIDTH * HEIGHT) \div 2

CHUNK_SIZE == 4096

\* the cmd module
CMDH == 170

POWER_SETTING == 1

POWER_OFF == 2

POWER_ON == 4

DEEP_SLEEP == 7

DATA_START == 16

DISPLAY_REFRESH == 18

PLL_CONTROL == 48

VCOM_DATA_INTERVAL == 80

TCON_SETTING == 96

RESOLUTION_SETTING == 97

POWER_SAVING == 227

PANEL_SETTING == 0

INPUT_DATA == 3

BOOSTER_SOFT_START1 == 5

BOOSTER_SOFT_START2 == 6

BOOSTER_SOFT_START3 == 8

UNKNOWN_84 == 132

\* GpioController::new and Epd7in3e::new: rst high, dc low, pwr low
NewDriver == [initialized |-> FALSE, pwr |-> FALSE, rst |-> TRUE, dc |-> FALSE]

\* GpioController::power_on
power_on == <<<<"pwr", TRUE>>>>

\* GpioController::power_off
power_off == <<<<"pwr", FALSE>>>>

\* GpioController::reset
reset == <<<<"rst", TRUE>>, <<"rst", FALSE>>, <<"rst", TRUE>>>>

\* GpioController::wait_busy
wait_busy == <<<<"busy">>>>

\* SpiDisplay::write_command: dc low, then one write of the command byte
write_command(cmd) == <<<<"dc", FALSE>>, <<"spi", <<cmd>>>>>>

\* data.chunks(CHUNK_SIZE) of write_data_bulk: one spi.write per chunk, the
\* event naming the chunk by its offset and length
BufferChunks(offset, len) ==
    [i \in 1..((len - offset + CHUNK_SIZE - 1) \div CHUNK_SIZE) |->
        LET at == offset + (i - 1) * CHUNK_SIZE
        IN  <<"spi", <<"buf", at, IF len - at < CHUNK_SIZE THEN len - at ELSE CHUNK_SIZE>>>>]

\* a bulk write that leaves the data/command line as it is
write_data_bulk_unframed(data) == IF data = <<>> THEN <<>> ELSE <<<<"spi", data>>>>

\* SpiDisplay::write_data_bulk for a payload of at most one chunk
write_data_bulk(data) ==
    <<<<"dc", TRUE>>>> \o (IF data = <<>> THEN <<>> ELSE <<<<"spi", data>>>>)

\* SpiDisplay::write_data_bulk for an image buffer
write_buffer_bulk(buffer) == <<<<"dc", TRUE>>>> \o BufferChunks(0, buffer.len)

\* SpiDisplay::write_command_data
write_command_data(cmd, data) ==
    write_command(cmd) \o (IF data # <<>> THEN write_data_bulk(data) ELSE <<>>)

IsFallible(step) == step[1] \in {"busy", "spi"}

\* the positions i.. of the fallible steps, in order
FalliblePositions(steps, i) ==
    SelectSeq([j \in 1..Len(steps) |-> j], LAMBDA j : j >= i /\ IsFallible(steps[j]))

\* the level a pin has after the events of trace, `level` before them
LastLevel(trace, pin, level) ==
    LET at == SelectSeq([j \in 1..Len(trace) |-> j], LAMBDA j : trace[j][1] = pin)
    IN  IF at = <<>> THEN level ELSE trace[at[Len(at)]][2]

\* Runs steps[i..] with `?` after every fallible step.  n counts the fallible
\* steps passed before; the one numbered fault fails with its error and the
\* steps after it do not run.
RunFrom(drv, steps, i, n, fault, trace) ==
    LET fallible == FalliblePositions(steps, i)
        fails == fault > n /\ fault - n <= Len(fallible)
        last  == IF fails THEN fallible[fault - n] - 1 ELSE Len(steps)
        ran   == SubSeq(steps, i, last)
    IN  [drv |-> [drv EXCEPT !.pwr = LastLevel(ran, "pwr", drv.pwr),
                             !.rst = LastLevel(ran, "rst", drv.rst),
                             !.dc = LastLevel(ran, "dc", drv.dc)],
         trace |-> trace \o ran,
         n |-> IF fails THEN fault ELSE n + Len(fallible),
         err |-> IF ~fails THEN None
                 ELSE Some(IF steps[last + 1][1] = "busy" THEN "BusyTimeout" ELSE "Spi")]

\* the steps of init as they would be with the resolution taken from a
\* 100 x 100 display configuration
InitStepsConfigured ==
    power_on \o reset \o wait_busy
    \o write_command_data(CMDH, <<73, 85, 32, 8, 9, 24>>)
    \o write_command_data(POWER_SETTING, <<63>>)
    \o write_command_data(PANEL_SETTING, <<95, 105>>)
    \o write_command_data(INPUT_DATA, <<0, 84, 0, 68>>)
    \o write_command_data(BOOSTER_SOFT_START1, <<64, 31, 31, 44>>)
    \o write_command_data(BOOSTER_SOFT_START2, <<111, 31, 23, 73>>)
    \o write_command_data(BOOSTER_SOFT_START3, <<111, 31, 31, 34>>)
    \o write_command_data(PLL_CONTROL, <<3>>)
    \o write_command_data(VCOM_DATA_INTERVAL, <<63>>)
    \o write_command_data(TCON_SETTING, <<2, 0>>)
    \o write_command_data(RESOLUTION_SETTING, <<0, 100, 0, 100>>)
    \o write_command_data(UNKNOWN_84, <<1>>)
    \o write_command_data(POWER_SAVING, <<47>>)
    \o write_command(POWER_ON) \o wait_busy

\* the steps of Epd7in3e::init before the flag is set
InitSteps ==
    power_on \o reset \o wait_busy
    \o write_command_data(CMDH, <<73, 85, 32, 8, 9, 24>>)
    \o write_command_data(POWER_SETTING, <<63>>)
    \o write_command_data(PANEL_SETTING, <<95, 105>>)
    \o write_command_data(INPUT_DATA, <<0, 84, 0, 68>>)
    \o write_command_data(BOOSTER_SOFT_START1, <<64, 31, 31, 44>>)
    \o write_command_data(BOOSTER_SOFT_START2, <<111, 31, 23, 73>>)
    \o write_command_data(BOOSTER_SOFT_START3, <<111, 31, 31, 34>>)
    \o write_command_data(PLL_CONTROL, <<3>>)
    \o write_command_data(VCOM_DATA_INTERVAL, <<63>>)
    \o write_command_data(TCON_SETTING, <<2, 0>>)
    \o write_command_data(RESOLUTION_SETTING, <<3, 32, 1, 224>>)
    \o write_command_data(UNKNOWN_84, <<1>>)
    \o write_command_data(POWER_SAVING, <<47>>)
    \o write_command(POWER_ON) \o wait_busy

\* The result of a driver operation: the driver after it, the events it
\* produced, the fallible steps it passed, and err = None for Ok.
\* Epd7in3e::init
epd_init(drv, fault) ==
    LET r == RunFrom(drv, InitSteps, 1, 0, fault, <<>>)
    IN  IF r.err = None THEN [r EXCEPT !.drv.initialized = TRUE] ELSE r

\* turn_on_display as it would be with the refresh issued first
turn_on_display_refresh_first ==
    write_command_data(DISPLAY_REFRESH, <<0>>) \o wait_busy
    \o write_command(POWER_ON) \o wait_busy
    \o write_command_data(POWER_OFF, <<0>>) \o wait_busy

\* Epd7in3e::turn_on_display
turn_on_display ==
    write_command(POWER_ON) \o wait_busy
    \o write_command_data(DISPLAY_REFRESH, <<0>>) \o wait_busy
    \o write_command_data(POWER_OFF, <<0>>) \o wait_busy

\* display() as it would be without its length check
epd_display_any_length(drv, buffer, fault) ==
    IF ~drv.initialized
    THEN [drv |-> drv, trace |-> <<>>, n |-> 0, err |-> Some("NotInitialized")]
    ELSE RunFrom(drv, write_command(DATA_START) \o write_buffer_bulk(buffer)
                      \o turn_on_display, 1, 0, fault, <<>>)

\* Epd7in3e::display
epd_display(drv, buffer, fault) ==
    IF ~drv.initialized
    THEN [drv |-> drv, trace |-> <<>>, n |-> 0, err |-> Some("NotInitialized")]
    ELSE IF buffer.len # BUFFER_SIZE
    THEN [drv |-> drv, trace |-> <<>>, n |-> 0, err |-> Some("InvalidBufferSize")]
    ELSE RunFrom(drv, write_command(DATA_START) \o write_buffer_bulk(buffer)
                      \o turn_on_display, 1, 0, fault, <<>>)

\* an operation that first initializes the driver if it is not, then displays
InitThenDisplay(drv, buffer, fault) ==
    LET i == IF ~drv.initialized THEN epd_init(drv, fault)
             ELSE [drv |-> drv, trace |-> <<>>, n |-> 0, err |-> None]
    IN  IF i.err # None THEN i
        ELSE LET d == epd_display(i.drv, buffer, IF fault > i.n THEN fault - i.n ELSE 0)
             IN  [drv |-> d.drv, trace |-> i.trace \o d.trace, n |-> i.n + d.n,
                  err |-> d.err]

\* Epd7in3e::clear(color): a full buffer of one packed byte
epd_clear(drv, color, fault) ==
    InitThenDisplay(drv, [len |-> BUFFER_SIZE, content |-> <<"solid", color * 16 + color>>],
                    fault)

\* Epd7in3e::test_pattern: seven stripes
epd_test_pattern(drv, fault) ==
    InitThenDisplay(drv, [len |-> BUFFER_SIZE, content |-> <<"stripes", HEIGHT \div 7>>],
                    fault)

\* Epd7in3e::sleep
epd_sleep(drv, fault) ==
    LET r == RunFrom(drv, write_command(POWER_OFF) \o wait_busy
                          \o write_command_data(DEEP_SLEEP, <<165>>) \o power_off,
                     1, 0, fault, <<>>)
    IN  IF r.err = None THEN [r EXCEPT !.drv.initialized = FALSE] ELSE r

\* teardown as it would be with Drop for Epd7in3e alone
epd_drop_sleep_only(drv, fault) ==
    LET s == IF drv.initialized THEN epd_sleep(drv, fault)
             ELSE [drv |-> drv, trace |-> <<>>, n |-> 0, err |-> None]
    IN  [drv |-> s.drv, trace |-> s.trace, n |-> s.n, err |-> None]

\* Drop for Epd7in3e, then Drop for GpioController (its field)
epd_drop(drv, fault) ==
    LET s == IF drv.initialized THEN epd_sleep(drv, fault)
             ELSE [drv |-> drv, trace |-> <<>>, n |-> 0, err |-> None]
    IN  [drv |-> [s.drv EXCEPT !.pwr = FALSE], trace |-> s.trace \o power_off,
         n |-> s.n, err |-> None]

(***************************************************************************)
(* image_proc/: the size of what each stage produces.  A buffer is known   *)
(* by its length and a tag for its content.                                *)
(***************************************************************************)
Min(a, b) == IF a < b THEN a ELSE b

\* the dimensions after apply_rotation (apply_mirroring keeps them)
RotatedDims(src, rotation) ==
    IF rotation \in {90, 270} THEN <<src[2], src[1]>> ELSE src

\* apply_mirroring: fliph and flipv keep the dimensions
apply_mirroring(src, mirror_h, mirror_v) == src

(***************************************************************************)
(* The f32 arithmetic of the scale factors.  A positive f32 is a record of *)
(* its 24-bit significand m (2^23 <= m < 2^24) and exponent e, with value  *)
(* m * 2^e; operations round to nearest, ties to even.  The integers       *)
(* converted (image and display sides, below 4096) are exact in f32.       *)
(***************************************************************************)
\* the number of bits of n >= 1
BitLen(n) == CHOOSE l \in 1..31 : n \div 2^(l - 1) = 1

\* q + 1 where round-to-nearest-even rounds up, given the remainder rem of a
\* division by d; a significand of 2^24 is renormalised
Rounded(q, rem, d, e) ==
    LET up == 2 * rem > d \/ (2 * rem = d /\ q % 2 = 1)
        m == IF up THEN q + 1 ELSE q
    IN  IF m = 2^24 THEN [m |-> 2^23, e |-> e + 1] ELSE [m |-> m, e |-> e]

\* a as f32 / b as f32
f32_div(a, b) ==
    LET k0 == 23 + BitLen(b) - BitLen(a)
        \* floor(a * 2^k / b) and its remainder, the shift taken in two parts
        shifted(k) ==
            LET c1 == IF k < 12 THEN k ELSE 12
                q1 == (a \div b) * 2^c1 + ((a % b) * 2^c1) \div b
                r1 == ((a % b) * 2^c1) % b
                c2 == IF k - c1 < 12 THEN k - c1 ELSE 12
                q2 == q1 * 2^c2 + (r1 * 2^c2) \div b
                r2 == (r1 * 2^c2) % b
                c3 == k - c1 - c2
            IN  [q |-> q2 * 2^c3 + (r2 * 2^c3) \div b, r |-> (r2 * 2^c3) % b]
        k == IF shifted(k0).q >= 2^23 THEN k0 ELSE k0 + 1
    IN  Rounded(shifted(k).q, shifted(k).r, b, -k)

\* n as f32 * x
f32_mul(n, x) ==
    LET lo_full == n * (x.m % 2^12)
        hi == n * (x.m \div 2^12) + lo_full \div 2^12
        lo == lo_full % 2^12
        sh == BitLen(hi) - 12
    IN  Rounded(hi * 2^(12 - sh) + lo \div 2^sh, lo % 2^sh, 2^sh, x.e + sh)

f32_less(x, y) == x.e < y.e \/ (x.e = y.e /\ x.m < y.m)

\* f32::min
f32_min(x, y) == IF f32_less(y, x) THEN y ELSE x

\* f32::max
f32_max(x, y) == IF f32_less(x, y) THEN y ELSE x

\* `x as u32`: the fraction is dropped
as_u32(x) ==
    IF x.e >= 0 THEN x.m * 2^x.e
    ELSE IF -x.e >= 24 THEN 0
    ELSE x.m \div 2^(-x.e)

\* a - b in u32 where b > a and the build wraps: 2^32 + a - b, then `/ 2`
WrappedHalf(a, b) == 2147483647 - ((b - a - 1) \div 2)

\* scale_to_fit: the image is resized to new_width x new_height and laid on
\* a canvas of max_width x max_height, which is returned.  A new side
\* larger than the canvas makes the subtraction of the offset overflow:
\* a panic (None) in a build with overflow checks; else the offset wraps and
\* overlay leaves the canvas as it is.
scale_to_fit(src, max_width, max_height, overflow_checks) ==
    LET scale == f32_min(f32_div(max_width, src[1]), f32_div(max_height, src[2]))
        new_width == as_u32(f32_mul(src[1], scale))
        new_height == as_u32(f32_mul(src[2], scale))
    IN  IF overflow_checks /\ (new_width > max_width \/ new_height > max_height)
        THEN None
        ELSE <<max_width, max_height>>

\* scale_to_fill: resize_exact to new_width x new_height, then crop_imm, which
\* clamps the crop to the resized image.  A new side smaller than the target
\* makes the subtraction overflow: a panic (None) in a build with overflow
\* checks, else a wrapped crop offset.
scale_to_fill(src, target_width, target_height, overflow_checks) ==
    LET scale == f32_max(f32_div(target_width, src[1]), f32_div(target_height, src[2]))
        new_width == as_u32(f32_mul(src[1], scale))
        new_height == as_u32(f32_mul(src[2], scale))
        crop_x == IF new_width >= target_width THEN (new_width - target_width) \div 2
                  ELSE WrappedHalf(new_width, target_width)
        crop_y == IF new_height >= target_height THEN (new_height - target_height) \div 2
                  ELSE WrappedHalf(new_height, target_height)
        x == Min(crop_x, new_width)
        y == Min(crop_y, new_height)
    IN  IF overflow_checks /\ (new_width < target_width \/ new_height < target_height)
        THEN None
        ELSE <<Min(target_width, new_width - x), Min(target_height, new_height - y)>>

\* transform_image: the dimensions of the RgbImage it returns, None when it
\* panics
transform_image(src, c, overflow_checks) ==
    LET img == IF c.rotate_first
               THEN apply_mirroring(RotatedDims(src, c.rotation), c.mirror_h, c.mirror_v)
               ELSE RotatedDims(apply_mirroring(src, c.mirror_h, c.mirror_v), c.rotation)
    IN  IF c.scale_to_fit
        THEN scale_to_fit(img, c.display_width, c.display_height, overflow_checks)
        ELSE scale_to_fill(img, c.display_width, c.display_height, overflow_checks)

\* calculate_buffer_size
calculate_buffer_size(width, height) == (width * height) \div 2

\* dither_image on a width x height image: result is indexed at
\* (y * width + x) / 2 for every pixel; an index at or past its length
\* panics (None), else Some(buffer)
dither_image(dims) ==
    LET width == dims[1]
        height == dims[2]
        buffer_size == calculate_buffer_size(width, height)
        last_byte_idx == ((height - 1) * width + (width - 1)) \div 2
    IN  IF width > 0 /\ height > 0 /\ last_byte_idx >= buffer_size THEN None
        ELSE Some([len |-> buffer_size, content |-> <<"image", width, height>>])

(***************************************************************************)
(* image_proc/dither.rs pixel by pixel.  An image is a record of width,    *)
(* height and px, the RGB triples in row-major order; a packed buffer is a *)
(* sequence of bytes.                                                      *)
(***************************************************************************)
\* Black, White, Yellow, Red, Orange, Blue, Green: PALETTE[i] is PALETTE[i + 1] here
PALETTE ==
    << <<0, 0, 0>>, <<255, 255, 255>>, <<255, 255, 0>>, <<255, 0, 0>>, <<255, 128, 0>>,
       <<0, 0, 255>>, <<0, 255, 0>> >>

\* the key of min_by_key in find_nearest_color
Distance(c, p) ==
    (c[1] - p[1]) * (c[1] - p[1]) + (c[2] - p[2]) * (c[2] - p[2])
    + (c[3] - p[3]) * (c[3] - p[3])

\* find_nearest_color: min_by_key returns the first of several minima
find_nearest_color(c) ==
    CHOOSE i \in 0..6 :
       \A j \in 0..6 :
          \/ Distance(c, PALETTE[i + 1]) < Distance(c, PALETTE[j + 1])
          \/ Distance(c, PALETTE[i + 1]) = Distance(c, PALETTE[j + 1]) /\ i <= j

\* i16::clamp
clamp(v, lo, hi) == IF v < lo THEN lo ELSE IF v > hi THEN hi ELSE v

\* the `/` of Rust integers, which rounds towards zero
TruncDiv(a, b) == IF a >= 0 THEN a \div b ELSE -((-a) \div b)

\* the `|` of two bytes
BitOr(a, b) ==
    LET bit(v, k) == (v \div 2^k) % 2
        or(k) == IF bit(a, k) = 1 \/ bit(b, k) = 1 THEN 2^k ELSE 0
    IN  or(0) + or(1) + or(2) + or(3) + or(4) + or(5) + or(6) + or(7)

\* componentwise sum of a pixel and num/16 of the error
AddError(p, err, num) ==
    <<p[1] + TruncDiv(err[1] * num, 16), p[2] + TruncDiv(err[2] * num, 16),
      p[3] + TruncDiv(err[3] * num, 16)>>

\* the packing of dither_image: result[byte_idx] = color_idx << 4 for even x,
\* result[byte_idx] |= color_idx for odd x
Pack(result, x, byte_idx, color_idx) ==
    [result EXCEPT ![byte_idx + 1] =
       IF x % 2 = 0 THEN (color_idx * 16) % 256 ELSE BitOr(@, color_idx)]

\* the channel values held in a row of error state (r is the row, computed
\* once)
Channels(row) ==
    UNION {UNION {{r[k][1], r[k][2], r[k][3]} : k \in DOMAIN r} : r \in {row}}

\* the least and the greatest of a set of integers (T is the set, computed
\* once)
Least(S) == CHOOSE v \in UNION {{m \in T : \A w \in T : m <= w} : T \in {S}} : TRUE

Greatest(S) == CHOOSE v \in UNION {{m \in T : \A w \in T : m >= w} : T \in {S}} : TRUE

\* The state of dither_image before its loops: curr_row, next_row and result
\* as allocated; chosen and errs list the colour index and the quantization
\* error of every pixel processed; lo and hi are the least and the greatest
\* value an i16 of the function has held; panicked is set once result is
\* indexed out of bounds.
DitherStart(img) ==
    [curr_row |-> [k \in 1..img.width |-> <<0, 0, 0>>],
     next_row |-> [k \in 1..img.width |-> <<0, 0, 0>>],
     result |-> [k \in 1..calculate_buffer_size(img.width, img.height) |-> 0],
     chosen |-> <<>>,
     errs |-> <<>>,
     lo |-> 0,
     hi |-> 0,
     panicked |-> FALSE]

\* the end of a scanline with the swap alone: the old current row is kept
swap_rows_uncleared(curr_row, next_row) == [curr_row |-> next_row, next_row |-> curr_row]

\* the end of a scanline: mem::swap of the rows, then next_row is zeroed
swap_rows(curr_row, next_row) ==
    [curr_row |-> next_row, next_row |-> [k \in DOMAIN curr_row |-> <<0, 0, 0>>]]

\* The body of the loops of dither_image for pixel i = y * width + x: the
\* load of scanline y before its first pixel, the pixel itself, and the swap
\* and clearing of the rows after its last pixel.
DitherPixel(img, i, s) ==
    LET x == i % img.width
        y == i \div img.width
        loaded == IF x # 0 THEN s.curr_row
                  ELSE [k \in 1..img.width |->
                          LET p == img.px[y * img.width + k]
                          IN  <<s.curr_row[k][1] + p[1], s.curr_row[k][2] + p[2],
                                s.curr_row[k][3] + p[3]>>]
        c == <<clamp(loaded[x + 1][1], 0, 255), clamp(loaded[x + 1][2], 0, 255),
               clamp(loaded[x + 1][3], 0, 255)>>
        color_idx == find_nearest_color(c)
        pal == PALETTE[color_idx + 1]
        err == <<c[1] - pal[1], c[2] - pal[2], c[3] - pal[3]>>
        curr == IF x + 1 < img.width
                THEN [loaded EXCEPT ![x + 2] = AddError(@, err, 7)]
                ELSE loaded
        below_left == IF y + 1 < img.height /\ x > 0
                      THEN [s.next_row EXCEPT ![x] = AddError(@, err, 3)]
                      ELSE s.next_row
        below == IF y + 1 < img.height
                 THEN [below_left EXCEPT ![x + 1] = AddError(@, err, 5)]
                 ELSE below_left
        next == IF y + 1 < img.height /\ x + 1 < img.width
                THEN [below EXCEPT ![x + 2] = AddError(@, err, 1)]
                ELSE below
        held == Channels(loaded) \cup Channels(curr) \cup Channels(next)
                \cup {err[1] * 7, err[2] * 7, err[3] * 7, s.lo, s.hi}
        byte_idx == (y * img.width + x) \div 2
        last == x + 1 = img.width
    IN  IF byte_idx >= Len(s.result)
        THEN [s EXCEPT !.curr_row = curr, !.next_row = next,
                       !.errs = Append(s.errs, err),
                       !.lo = Least(held), !.hi = Greatest(held), !.panicked = TRUE]
        ELSE [curr_row |-> IF last THEN swap_rows(curr, next).curr_row ELSE curr,
              next_row |-> IF last THEN swap_rows(curr, next).next_row ELSE next,
              result |-> Pack(s.result, x, byte_idx, color_idx),
              chosen |-> Append(s.chosen, color_idx),
              errs |-> Append(s.errs, err),
              lo |-> Least(held),
              hi |-> Greatest(held),
              panicked |-> FALSE]

\* the loops of dither_image from pixel i on, up to pixel `stop` or a panic
\* (v is the state after pixel i, computed once)
RECURSIVE DitherUpTo(_, _, _, _)
DitherUpTo(img, i, stop, s) ==
    IF i >= stop \/ s.panicked THEN s
    ELSE CHOOSE r \in {DitherUpTo(img, i + 1, stop, v) : v \in {DitherPixel(img, i, s)}} :
            TRUE

\* the loops of dither_image from pixel i = y * width + x on
DitherFrom(img, i, s) == DitherUpTo(img, i, img.width * img.height, s)

\* dither_image on the pixels of img: result = Some(the packed buffer) when it
\* returns and None when it panics; chosen lists the colour index of every
\* pixel it reached
dither_image_pixels(img) ==
    LET s == DitherFrom(img, 0, DitherStart(img))
    IN  [result |-> IF s.panicked THEN None ELSE Some(s.result), chosen |-> s.chosen]

(***************************************************************************)
(* web/routes.rs: the form and update_config.  A form is a record of the   *)
(* fields present; plans_json holds Some(PlansFormData) or, for text that  *)
(* serde_json rejects, None.                                               *)
(***************************************************************************)
\* get_form_field
get_form_field(form, key, default) == IF key \in DOMAIN form THEN form[key] ELSE default

\* parse_form_field::<u32>
parse_form_field_u32(form, key, default) ==
    IF key \in DOMAIN form /\ ParseU32(form[key]) # None
    THEN Unwrap(ParseU32(form[key])) ELSE default

\* parse_form_field::<u16>
parse_form_field_u16(form, key, default) ==
    IF key \in DOMAIN form /\ ParseU16(form[key]) # None
    THEN Unwrap(ParseU16(form[key])) ELSE default

\* parse_plans_from_form: Some(<<plans, day_assignments>>), or None for Err
parse_plans_from_form(form) ==
    IF "plans_json" \notin DOMAIN form THEN None
    ELSE IF form.plans_json = None THEN None
    ELSE LET data == Unwrap(form.plans_json)
         IN  IF data.plans = <<>> THEN None
             ELSE Some(<<data.plans,
                         [day \in WeekdaySet |->
                            IF short_name(day) \in DOMAIN data.day_assignments
                            THEN data.day_assignments[short_name(day)]
                            ELSE data.plans[1].name]>>)

\* the fields update_config assigns before it parses the plans
ApplyBasicFields(c, form) ==
    [c EXCEPT !.image_url = get_form_field(form, "image_url", <<>>),
              !.display_width = parse_form_field_u32(form, "display_width", 800),
              !.display_height = parse_form_field_u32(form, "display_height", 480),
              !.rotation = parse_form_field_u16(form, "rotation", 0),
              !.rotate_first = (get_form_field(form, "rotate_first", <<"1">>) = <<"1">>),
              !.mirror_h = ("mirror_h" \in DOMAIN form),
              !.mirror_v = ("mirror_v" \in DOMAIN form),
              !.scale_to_fit = ("scale_to_fit" \in DOMAIN form)]

\* update_config under the write lock: the configuration it leaves behind and
\* its result.  save_ok: Config::save succeeds.
update_config(c, form, save_ok) ==
    LET c1 == ApplyBasicFields(c, form)
        parsed == parse_plans_from_form(form)
    IN  IF parsed = None THEN [config |-> c1, result |-> "Err(plans)"]
        ELSE LET c2 == [c1 EXCEPT !.schedule_plans = Unwrap(parsed)[1],
                                  !.day_assignments = Unwrap(parsed)[2]]
             IN  IF ~validate(c2) THEN [config |-> c2, result |-> "Err(validate)"]
                 ELSE IF ~save_ok THEN [config |-> c2, result |-> "Err(save)"]
                 ELSE [config |-> c2, result |-> "Ok"]

(***************************************************************************)
(* scheduler.rs                                                            *)
(***************************************************************************)
\* the settle delay of run(), in seconds
SETTLE_SECS == 10

MAX_CONSECUTIVE_FAILURES == 5

FAILURE_BACKOFF_MULTIPLIER == 2

MAX_BACKOFF_SECS == 3600

\* u64::pow
RECURSIVE pow(_, _)
pow(base, exponent) == IF exponent = 0 THEN 1 ELSE base * pow(base, exponent - 1)

\* u64::saturating_mul: the products of the model stay far below u64::MAX
saturating_mul(a, b) == a * b

\* the backoff as it would be with the threshold test `>` for `>=`
get_effective_interval_late(n_failures, base_interval) ==
    IF n_failures > MAX_CONSECUTIVE_FAILURES
    THEN LET exponent == Min(n_failures - MAX_CONSECUTIVE_FAILURES + 1, 6)
             multiplier == pow(FAILURE_BACKOFF_MULTIPLIER, exponent)
         IN  Min(saturating_mul(base_interval, multiplier), MAX_BACKOFF_SECS)
    ELSE base_interval

\* Scheduler::get_effective_interval, in seconds
get_effective_interval(n_failures, base_interval) ==
    IF n_failures >= MAX_CONSECUTIVE_FAILURES
    THEN LET exponent == Min(n_failures - MAX_CONSECUTIVE_FAILURES + 1, 6)
             multiplier == pow(FAILURE_BACKOFF_MULTIPLIER, exponent)
         IN  Min(saturating_mul(base_interval, multiplier), MAX_BACKOFF_SECS)
    ELSE base_interval

\* the base interval of run(): Duration::from_secs(current_interval * 60)
BaseInterval(c, day, minute) == get_current_interval(c, day, minute) * 60

\* a success that leaves the counter as it is
OnRefreshOkKeep(n_failures) == n_failures

\* a failure whose increment is lost
OnRefreshErrLost(n_failures) == n_failures

\* consecutive_failures.swap(0) on Ok
OnRefreshOk(n_failures) == 0

\* consecutive_failures.fetch_add(1) on Err
OnRefreshErr(n_failures) == n_failures + 1

(***************************************************************************)
(* image_proc/download.rs.  A response is what one request meets: send()   *)
(* fails (send = "Err"), or it returns a status and the body is read       *)
(* (body = Some(content)) or its reading fails (body = None).  The trace   *)
(* lists the requests <<"get", url>> and the sleeps <<"sleep", seconds>>.  *)
(***************************************************************************)
\* DownloadConfig::default()
DefaultDownloadConfig == [max_retries |-> 3, retry_delay |-> 2]

\* StatusCode::is_success
is_success(status) == 200 <= status /\ status < 300

\* what one attempt stores in last_error
AttemptError(response) ==
    IF response.send = "Ok" /\ ~is_success(response.status)
    THEN "Err(HttpError(" \o ToString(response.status) \o "))"
    ELSE "Err(RequestError)"

\* the loop that sleeps retry_delay * 2^attempt before an attempt
RECURSIVE download_with_retry_late(_, _, _, _, _, _)
download_with_retry_late(url, cfg, responses, attempt, last_error, trace) ==
    IF attempt >= cfg.max_retries
    THEN [result |-> IF last_error = None THEN "Err(Timeout)" ELSE Unwrap(last_error),
          body |-> None, trace |-> trace]
    ELSE LET slept == IF attempt > 0
                      THEN Append(trace, <<"sleep", cfg.retry_delay * pow(2, attempt)>>)
                      ELSE trace
             sent == Append(slept, <<"get", url>>)
             response == responses[attempt + 1]
         IN  IF response.send = "Ok" /\ is_success(response.status) /\ response.body # None
             THEN [result |-> "Ok", body |-> response.body, trace |-> sent]
             ELSE download_with_retry_late(url, cfg, responses, attempt + 1,
                                           Some(AttemptError(response)), sent)

\* download_with_retry from the head of iteration `attempt` of its loop
\* (attempt, last_error and trace are 0, None and <<>> at the call); the
\* exponent attempt - 1 stays far below 32 for the retry counts explored
RECURSIVE download_with_retry(_, _, _, _, _, _)
download_with_retry(url, cfg, responses, attempt, last_error, trace) ==
    IF attempt >= cfg.max_retries
    THEN [result |-> IF last_error = None THEN "Err(Timeout)" ELSE Unwrap(last_error),
          body |-> None, trace |-> trace]
    ELSE LET slept == IF attempt > 0
                      THEN Append(trace, <<"sleep", cfg.retry_delay * pow(2, attempt - 1)>>)
                      ELSE trace
             sent == Append(slept, <<"get", url>>)
             response == responses[attempt + 1]
         IN  IF response.send = "Ok" /\ is_success(response.status) /\ response.body # None
             THEN [result |-> "Ok", body |-> response.body, trace |-> sent]
             ELSE download_with_retry(url, cfg, responses, attempt + 1,
                                      Some(AttemptError(response)), sent)

\* the bytes are decoded: an image of some dimensions, or not an image
Decode(r) ==
    IF r.result # "Ok" THEN r
    ELSE IF Unwrap(r.body) = <<"garbage">>
    THEN [result |-> "Err(DecodeError)", body |-> None, trace |-> r.trace]
    ELSE r

\* a download_image_with_config that tests the URL as given
download_image_with_config_untrimmed(url, cfg, responses) ==
    IF url = <<>>
    THEN [result |-> "Err(EmptyUrl)", body |-> None, trace |-> <<>>]
    ELSE Decode(download_with_retry(Trim(url), cfg, responses, 0, None, <<>>))

\* download_image_with_config; body is Some(dimensions of the image) on Ok
download_image_with_config(url, cfg, responses) ==
    IF Trim(url) = <<>>
    THEN [result |-> "Err(EmptyUrl)", body |-> None, trace |-> <<>>]
    ELSE Decode(download_with_retry(Trim(url), cfg, responses, 0, None, <<>>))

(***************************************************************************)
(* Inputs: stored configuration files, submitted forms, downloaded images, *)
(* the clock.                                                              *)
(***************************************************************************)
\* the text HH:MM of a time of day
HHMM(h, m) ==
    <<Digits[(h \div 10) + 1], Digits[(h % 10) + 1], ":",
      Digits[(m \div 10) + 1], Digits[(m % 10) + 1]>>

\* the decimal text of n < 10000
Dec(n) ==
    LET all == <<Digits[((n \div 1000) % 10) + 1], Digits[((n \div 100) % 10) + 1],
                 Digits[((n \div 10) % 10) + 1], Digits[(n % 10) + 1]>>
        skip == IF n >= 1000 THEN 0 ELSE IF n >= 100 THEN 1 ELSE IF n >= 10 THEN 2 ELSE 3
    IN  SubSeq(all, skip + 1, 4)

UrlA == <<"h", "t", "t", "p", ":", "/", "/", "a">>

BlankUrl == <<" ", " ">>

PlanDayNight ==
    SchedulePlan(<<"D", "a", "y">>,
                 <<SchedulePeriod(HHMM(6, 0), HHMM(22, 0), 30),
                   SchedulePeriod(HHMM(22, 0), HHMM(6, 0), 120)>>)

PlanFast == SchedulePlan(<<"F", "a", "s", "t">>, <<SchedulePeriod(HHMM(0, 0), HHMM(0, 0), 1)>>)

PlanGap == SchedulePlan(<<"G", "a", "p">>, <<SchedulePeriod(HHMM(6, 0), HHMM(22, 0), 30)>>)

DataDefault ==
    [plans |-> <<default_plan>>,
     day_assignments |-> [d \in {short_name(day) : day \in WeekdaySet} |-> DefaultName]]

DataWeek ==
    [plans |-> <<PlanDayNight, PlanFast>>,
     day_assignments |-> [d \in {"Sat", "Sun"} |-> PlanFast.name]]

DataGap == [plans |-> <<PlanGap>>, day_assignments |-> [d \in {} |-> <<>>]]

DataEmpty == [plans |-> <<>>, day_assignments |-> [d \in {} |-> <<>>]]

Forms ==
    << \* accepted: the panel's native geometry
      [image_url |-> UrlA, display_width |-> Dec(800), display_height |-> Dec(480),
       rotation |-> Dec(0), rotate_first |-> <<"1">>, scale_to_fit |-> <<"o", "n">>,
       plans_json |-> Some(DataDefault)],
      \* accepted: another geometry, scale to fill, two plans
      [image_url |-> UrlA, display_width |-> Dec(100), display_height |-> Dec(100),
       rotation |-> Dec(90), rotate_first |-> <<"0">>, mirror_h |-> <<"o", "n">>,
       plans_json |-> Some(DataWeek)],
      \* accepted: an odd number of pixels
      [image_url |-> UrlA, display_width |-> Dec(101), display_height |-> Dec(101),
       rotation |-> Dec(0), scale_to_fit |-> <<"o", "n">>,
       plans_json |-> Some(DataDefault)],
      \* accepted: blank URL, width absent, height not a number
      [image_url |-> BlankUrl, display_height |-> <<"a", "b", "c">>,
       rotation |-> Dec(180), scale_to_fit |-> <<"o", "n">>,
       plans_json |-> Some(DataDefault)],
      \* rejected by validate: width below 100
      [image_url |-> UrlA, display_width |-> Dec(50), display_height |-> Dec(480),
       rotation |-> Dec(270), mirror_v |-> <<"o", "n">>,
       plans_json |-> Some(DataWeek)],
      \* rejected by validate: a plan with a gap
      [image_url |-> UrlA, display_width |-> Dec(800), display_height |-> Dec(480),
       rotation |-> Dec(0), scale_to_fit |-> <<"o", "n">>,
       plans_json |-> Some(DataGap)],
      \* rejected: plans_json absent; rotation 45, height above 2000
      [display_width |-> Dec(800), display_height |-> Dec(2001), rotation |-> Dec(45)],
      \* rejected: plans_json is not JSON
      [image_url |-> UrlA, display_width |-> Dec(800), display_height |-> Dec(480),
       rotation |-> Dec(0), scale_to_fit |-> <<"o", "n">>, plans_json |-> None],
      \* rejected: no plan
      [image_url |-> UrlA, display_width |-> Dec(800), display_height |-> Dec(480),
       rotation |-> Dec(0), scale_to_fit |-> <<"o", "n">>,
       plans_json |-> Some(DataEmpty)] >>

\* what serde_json reads from the stored file (None: no file, or not JSON)
StoredFiles ==
    << None,
      Some([DefaultConfig EXCEPT !.image_url = UrlA]),
      Some([DefaultConfig EXCEPT !.image_url = UrlA, !.refresh_interval_min = Some(15)]),
      Some([DefaultConfig EXCEPT !.image_url = UrlA, !.display_width = 50]),
      Some([DefaultConfig EXCEPT !.image_url = UrlA, !.display_width = 100,
                                 !.display_height = 100]),
      Some([DefaultConfig EXCEPT !.image_url = UrlA, !.display_width = 101,
                                 !.display_height = 101]),
      Some([DefaultConfig EXCEPT !.image_url = BlankUrl]) >>

\* the sizes of the images the URL serves
SourceDims == {<<800, 480>>, <<3, 3>>}

\* what download_image returns: None for Err, else the decoded image's size
DownloadOutcomes == {None} \cup {Some(d) : d \in SourceDims}

\* the instants at which the scheduler reads the clock: Local::now() as
\* <<weekday, minutes since midnight>>
Clock == {<<"Monday", 360>>, <<"Sunday", 1410>>}

(***************************************************************************)
(* The tasks of the current_thread runtime: the scheduler (main.rs spawns  *)
(* Scheduler::run; SchedulerWithTrigger::run is the variant with a trigger *)
(* channel) and the route handlers.  A task moves at its await points.     *)
(***************************************************************************)
Handlers == {"web1"}

Tasks == {"sched"} \cup Handlers

\* tokio RwLock, write-preferring: a read is granted unless a writer waits
WriterQueued == \E h \in Handlers : task[h].pc = "update"

CanRead == ~WriterQueued

\* a write() that is granted while read guards are held
CanWriteAlways == TRUE

CanWrite == cfgLock = {}

\* a lock() that is granted whoever holds the mutex
CanLockAlways == TRUE

\* tokio Mutex::lock is granted when nobody holds the mutex
CanLock == panel = {}

IsErr(res) == res \notin {"Ok", "none"}

IdleTask(pc) == [pc |-> pc, op |-> "none", buf |-> None, res |-> "none"]

\* A task leaves its operation with result res: the read guard it holds is
\* dropped; refresh_display counts the result, a handler answers.
Finish(t, res) ==
    /\ (t = "sched" /\ IsErr(res)) => failures < MaxFailures
    /\ cfgLock' = cfgLock \ {t}
    /\ task' = [task EXCEPT ![t] = [pc |-> IF t = "sched" THEN "compute" ELSE "respond",
                                    op |-> task[t].op, buf |-> None, res |-> res]]
    /\ IF t = "sched"
       THEN /\ failures' = IF IsErr(res) THEN OnRefreshErr(failures)
                                        ELSE OnRefreshOk(failures)
            /\ sched' = [sched EXCEPT !.last = IF IsErr(res) THEN "err" ELSE "ok"]
       ELSE UNCHANGED <<failures, sched>>

\* A task panics: its guards are dropped by unwinding and the task ends (a
\* handler's connection is closed).
Panic(t) ==
    /\ cfgLock' = cfgLock \ {t}
    /\ task' = [task EXCEPT ![t] = [pc |-> IF t = "sched" THEN "panicked" ELSE "respond",
                                    op |-> task[t].op, buf |-> None, res |-> "panic"]]
    /\ UNCHANGED <<failures, sched>>

\* A request arrives at a route: /save, /apply, /action/{show,test,clear}
Request(h, route) ==
    /\ ~shutdown
    /\ task[h].pc = "idle"
    /\ task' = [task EXCEPT ![h] =
                  [pc |-> CASE route \in {"save", "apply"} -> "update"
                            [] route = "show" -> "read"
                            [] route = "test" -> "test"
                            [] route = "clear" -> "init",
                   op |-> route, buf |-> None, res |-> "none"]]
    /\ UNCHANGED <<config, cfgLock, failures, sched, slot, panel, bus, shutdown, trigger>>

\* update_config, from the grant of the write lock to its return
UpdateConfig(h, form, save_ok) ==
    /\ task[h].pc = "update"
    /\ CanWrite
    /\ LET r == update_config(config, form, save_ok)
       IN  /\ config' = r.config
           /\ task' = [task EXCEPT ![h].res = r.result,
                                    ![h].pc = IF r.result = "Ok" /\ task[h].op = "apply"
                                              THEN "read" ELSE "render"]
    /\ UNCHANGED <<cfgLock, failures, sched, slot, panel, bus, shutdown, trigger>>

\* save_config and the error path of save_and_apply: read lock, render
Render(h) ==
    /\ task[h].pc = "render"
    /\ CanRead
    /\ task' = [task EXCEPT ![h].pc = "respond"]
    /\ UNCHANGED <<config, cfgLock, failures, sched, slot, panel, bus, shutdown, trigger>>

\* the handler's response is sent and the handler returns
Respond(h) ==
    /\ task[h].pc = "respond"
    /\ task' = [task EXCEPT ![h] = IdleTask("idle")]
    /\ UNCHANGED <<config, cfgLock, failures, sched, slot, panel, bus, shutdown, trigger>>

\* refresh_display, save_and_apply and display_action "show": the read lock
\* is granted and the URL is checked
AcquireRead(t) ==
    /\ task[t].pc = "read"
    /\ CanRead
    /\ IF has_image_url(config)
       THEN /\ cfgLock' = cfgLock \cup {t}
            /\ task' = [task EXCEPT ![t].pc = "download"]
            /\ UNCHANGED <<failures, sched>>
       ELSE IF t = "sched"
       THEN \* refresh_display returns: no URL configured
            /\ task' = [task EXCEPT ![t].pc = "compute"]
            /\ sched' = [sched EXCEPT !.last = "skipped"]
            /\ UNCHANGED <<cfgLock, failures>>
       ELSE \* process_and_display returns NoImageUrl
            Finish(t, "Err(NoImageUrl)")
    /\ UNCHANGED <<config, slot, panel, bus, shutdown, trigger>>

\* process_and_display as it would be with display.init() ahead of the
\* download: a failed download leaves an initialized panel behind
DownloadPanelFirst(t, outcome) ==
    /\ task[t].pc = "download"
    /\ IF outcome = None
       THEN /\ Finish(t, "Err(Download)")
            /\ slot' = IF slot = None THEN Some(epd_init(NewDriver, 0).drv) ELSE slot
            /\ bus' = IF slot = None THEN epd_init(NewDriver, 0).trace ELSE bus
       ELSE /\ \E overflow_checks \in BOOLEAN :
                  LET img == transform_image(Unwrap(outcome), config, overflow_checks)
                      buffer == IF img = None THEN None ELSE dither_image(img)
                  IN  IF buffer = None THEN Panic(t)
                      ELSE /\ task' = [task EXCEPT ![t].pc = "init", ![t].buf = buffer]
                           /\ UNCHANGED <<cfgLock, failures, sched>>
            /\ UNCHANGED <<slot, bus>>
    /\ UNCHANGED <<config, panel, shutdown, trigger>>

\* process_and_display from the end of the download to display.init():
\* outcome is None when the download or the decoding fails, else
\* Some(dimensions of the decoded image)
Download(t, outcome) ==
    /\ task[t].pc = "download"
    /\ IF outcome = None THEN Finish(t, "Err(Download)")
       ELSE \E overflow_checks \in BOOLEAN :
               LET img == transform_image(Unwrap(outcome), config, overflow_checks)
                   buffer == IF img = None THEN None ELSE dither_image(img)
               IN  IF buffer = None THEN Panic(t)
                   ELSE /\ task' = [task EXCEPT ![t].pc = "init", ![t].buf = buffer]
                        /\ UNCHANGED <<cfgLock, failures, sched>>
    /\ UNCHANGED <<config, slot, panel, bus, shutdown, trigger>>

PanelEntry == {"init", "display", "clear", "test", "test2", "sleep"}

LockedPc(pc) ==
    CASE pc = "init" -> "init_locked"
      [] pc = "display" -> "display_locked"
      [] pc = "clear" -> "clear_locked"
      [] pc = "test" -> "test_locked"
      [] pc = "test2" -> "test2_locked"
      [] pc = "sleep" -> "sleep_locked"

\* the task is inside a DisplayController method, past its lock().await
InPanelOp(t) ==
    task[t].pc \in {"init_locked", "display_locked", "clear_locked", "test_locked",
                    "test2_locked", "sleep_locked"}

\* self.display.lock().await of a DisplayController method
LockPanel(t) ==
    /\ task[t].pc \in PanelEntry
    /\ CanLock
    /\ panel' = panel \cup {t}
    /\ task' = [task EXCEPT ![t].pc = LockedPc(task[t].pc)]
    /\ UNCHANGED <<config, cfgLock, failures, sched, slot, bus, shutdown, trigger>>

\* where a task goes when display.init() returned Ok
AfterInit(op) ==
    CASE op = "clear" -> "clear"
      [] op = "test" -> "test2"
      [] OTHER -> "display"

\* DisplayController::init under the mutex.  Fallible step 1 is
\* Epd7in3e::new; the steps of Epd7in3e::init follow.
CtlInit(t, fault) ==
    /\ task[t].pc = "init_locked"
    /\ panel' = panel \ {t}
    /\ IF slot # None
       THEN /\ fault = 0
            /\ UNCHANGED <<slot, bus>>
            /\ task' = [task EXCEPT ![t].pc = AfterInit(task[t].op)]
            /\ UNCHANGED <<cfgLock, failures, sched>>
       ELSE IF fault = 1
       THEN /\ UNCHANGED <<slot, bus>>
            /\ Finish(t, "Err(Display(Gpio))")
       ELSE LET r == epd_init(NewDriver, IF fault = 0 THEN 0 ELSE fault - 1)
            IN  IF r.err = None
                THEN /\ slot' = Some(r.drv)
                     /\ bus' = r.trace
                     /\ task' = [task EXCEPT ![t].pc = AfterInit(task[t].op)]
                     /\ UNCHANGED <<cfgLock, failures, sched>>
                ELSE \* epd is dropped
                     /\ slot' = None
                     /\ bus' = r.trace \o epd_drop(r.drv, 0).trace
                     /\ Finish(t, "Err(Display(" \o Unwrap(r.err) \o "))")
    /\ UNCHANGED <<config, shutdown, trigger>>

\* the result of a driver call as the task's result
DisplayResult(r) ==
    IF r.err = None THEN "Ok" ELSE "Err(Display(" \o Unwrap(r.err) \o "))"

\* a DisplayController method that needs the driver in the slot, under the
\* mutex: NotInitialized on an empty slot, else the driver call
CtlCall(t, r) ==
    /\ panel' = panel \ {t}
    /\ IF slot = None
       THEN /\ UNCHANGED <<slot, bus>>
            /\ Finish(t, "Err(Display(NotInitialized))")
       ELSE /\ slot' = Some(r.drv)
            /\ bus' = r.trace
            /\ Finish(t, DisplayResult(r))
    /\ UNCHANGED <<config, shutdown, trigger>>

\* the driver in the slot (NewDriver stands in when the slot is empty)
Drv == IF slot = None THEN NewDriver ELSE Unwrap(slot)

\* DisplayController::display
CtlDisplay(t, fault) ==
    /\ task[t].pc = "display_locked"
    /\ CtlCall(t, epd_display(Drv, Unwrap(task[t].buf), fault))

\* DisplayController::clear: Color::White is 1
CtlClear(t, fault) ==
    /\ task[t].pc = "clear_locked"
    /\ CtlCall(t, epd_clear(Drv, 1, fault))

\* test_pattern as it would be without drop(display_guard): init() is called
\* with the mutex still held
CtlTestHoldsGuard(t, fault) ==
    /\ task[t].pc = "test_locked"
    /\ IF slot = None
       THEN /\ fault = 0
            /\ task' = [task EXCEPT ![t].pc = "init"]
            /\ UNCHANGED <<config, cfgLock, failures, sched, slot, panel, bus, shutdown,
                           trigger>>
       ELSE CtlCall(t, epd_test_pattern(Drv, fault))

\* DisplayController::test_pattern, first lock: an empty slot makes it drop
\* the guard and call init(); else it calls the driver
CtlTest(t, fault) ==
    /\ task[t].pc = "test_locked"
    /\ IF slot = None
       THEN /\ fault = 0
            /\ panel' = panel \ {t}
            /\ task' = [task EXCEPT ![t].pc = "init"]
            /\ UNCHANGED <<config, cfgLock, failures, sched, slot, bus, shutdown, trigger>>
       ELSE CtlCall(t, epd_test_pattern(Drv, fault))

\* DisplayController::test_pattern, second lock
CtlTest2(t, fault) ==
    /\ task[t].pc = "test2_locked"
    /\ CtlCall(t, epd_test_pattern(Drv, fault))

\* a caller enters DisplayController::sleep
CallSleep(t) ==
    /\ ~shutdown
    /\ task[t].pc = "idle"
    /\ task' = [task EXCEPT ![t] = [pc |-> "sleep", op |-> "sleep", buf |-> None,
                                    res |-> "none"]]
    /\ UNCHANGED <<config, cfgLock, failures, sched, slot, panel, bus, shutdown, trigger>>

\* DisplayController::sleep that keeps the driver in the slot after its sleep
CtlSleepKeepsDriver(t, fault) ==
    /\ task[t].pc = "sleep_locked"
    /\ panel' = panel \ {t}
    /\ IF slot = None
       THEN /\ fault = 0
            /\ UNCHANGED <<slot, bus>>
            /\ Finish(t, "Ok")
       ELSE LET r == epd_sleep(Unwrap(slot), fault)
            IN  /\ slot' = Some(r.drv)
                /\ bus' = r.trace
                /\ Finish(t, DisplayResult(r))
    /\ UNCHANGED <<config, shutdown, trigger>>

\* DisplayController::sleep under the mutex: Ok on an empty slot; else the
\* driver sleeps and, if that succeeded, the slot is emptied and the driver
\* dropped (Drop for Epd7in3e finds it not initialized, Drop for
\* GpioController drives the power pin low)
CtlSleep(t, fault) ==
    /\ task[t].pc = "sleep_locked"
    /\ panel' = panel \ {t}
    /\ IF slot = None
       THEN /\ fault = 0
            /\ UNCHANGED <<slot, bus>>
            /\ Finish(t, "Ok")
       ELSE LET r == epd_sleep(Unwrap(slot), fault)
            IN  /\ slot' = IF r.err = None THEN None ELSE Some(r.drv)
                /\ bus' = IF r.err = None THEN r.trace \o epd_drop(r.drv, 0).trace
                                          ELSE r.trace
                /\ Finish(t, DisplayResult(r))
    /\ UNCHANGED <<config, shutdown, trigger>>

\* the locals of one loop iteration of run() go out of scope
\* and the Sleep future of its select! is dropped
EndIteration ==
    [sched EXCEPT !.base_interval = 0, !.interval = 0, !.last = "none", !.timer = None]

\* the scheduler task has been woken by a channel and not polled yet: the
\* runtime polls it before it turns to its timers again
SchedWoken ==
    /\ task["sched"].pc \in {"settle", "sleeping"}
    /\ \/ shutdown
       \/ sched.kind = "SchedulerWithTrigger" /\ task["sched"].pc = "sleeping" /\ trigger > 0

\* d seconds pass while run() waits in a select!: its Sleep comes d nearer
Elapse(d) ==
    /\ task["sched"].pc \in {"settle", "sleeping"}
    /\ ~SchedWoken
    /\ sched.timer # None
    /\ Unwrap(sched.timer) > 0
    /\ sched' = [sched EXCEPT !.timer = Some(IF d < Unwrap(sched.timer)
                                              THEN Unwrap(sched.timer) - d ELSE 0)]
    /\ UNCHANGED <<config, cfgLock, failures, task, slot, panel, bus, shutdown, trigger>>

\* the Sleep of the select! is ready when the scheduler task is polled: it
\* has fired, or the task is woken by nothing else and the rest of the
\* sleep passes
SleepReady == sched.timer # None /\ (Unwrap(sched.timer) = 0 \/ ~SchedWoken)

\* run(): sleep(10 s) wins the first select!, the initial refresh starts
SchedSettle ==
    /\ task["sched"].pc = "settle"
    /\ SleepReady
    /\ task' = [task EXCEPT !["sched"] = [IdleTask("read") EXCEPT !.op = "refresh"]]
    /\ sched' = EndIteration
    /\ UNCHANGED <<config, cfgLock, failures, slot, panel, bus, shutdown, trigger>>

\* a recv arm that runs one last refresh before run() returns
SchedShutdownAfterRefresh ==
    /\ task["sched"].pc \in {"settle", "sleeping"}
    /\ shutdown
    /\ task' = [task EXCEPT !["sched"] = [IdleTask("read") EXCEPT !.op = "refresh"]]
    /\ sched' = EndIteration
    /\ UNCHANGED <<config, cfgLock, failures, slot, panel, bus, shutdown, trigger>>

\* run(): shutdown.recv() wins a select!
SchedShutdown ==
    /\ task["sched"].pc \in {"settle", "sleeping"}
    /\ shutdown
    /\ task' = [task EXCEPT !["sched"] = IdleTask("stopped")]
    /\ sched' = EndIteration
    /\ UNCHANGED <<config, cfgLock, failures, slot, panel, bus, shutdown, trigger>>

\* the head of the loop with the interval taken from the configuration the
\* scheduler was built with
SchedComputeDefault(day, minute) ==
    /\ task["sched"].pc = "compute"
    /\ CanRead
    /\ LET base_interval == BaseInterval(DefaultConfig, day, minute)
       IN  sched' = [sched EXCEPT !.base_interval = base_interval,
                                  !.interval = get_effective_interval(failures, base_interval),
                                  !.timer = Some(get_effective_interval(failures,
                                                                        base_interval))]
    /\ task' = [task EXCEPT !["sched"].pc = "sleeping"]
    /\ UNCHANGED <<config, cfgLock, failures, slot, panel, bus, shutdown, trigger>>

\* run(): the head of the loop, from the read lock to the select!
SchedCompute(day, minute) ==
    /\ task["sched"].pc = "compute"
    /\ CanRead
    /\ LET base_interval == BaseInterval(config, day, minute)
       IN  sched' = [sched EXCEPT !.base_interval = base_interval,
                                  !.interval = get_effective_interval(failures, base_interval),
                                  !.timer = Some(get_effective_interval(failures,
                                                                        base_interval))]
    /\ task' = [task EXCEPT !["sched"].pc = "sleeping"]
    /\ UNCHANGED <<config, cfgLock, failures, slot, panel, bus, shutdown, trigger>>

\* run(): sleep(interval) wins the select!
SchedTimer ==
    /\ task["sched"].pc = "sleeping"
    /\ SleepReady
    /\ task' = [task EXCEPT !["sched"] = [IdleTask("read") EXCEPT !.op = "refresh"]]
    /\ sched' = EndIteration
    /\ UNCHANGED <<config, cfgLock, failures, slot, panel, bus, shutdown, trigger>>

\* SchedulerWithTrigger::run(): trigger_rx.recv() wins the select!
SchedTrigger ==
    /\ sched.kind = "SchedulerWithTrigger"
    /\ task["sched"].pc = "sleeping"
    /\ trigger > 0
    /\ trigger' = trigger - 1
    /\ task' = [task EXCEPT !["sched"] = [IdleTask("read") EXCEPT !.op = "trigger"]]
    /\ sched' = EndIteration
    /\ UNCHANGED <<config, cfgLock, failures, slot, panel, bus, shutdown>>

\* the holder of trigger_tx sends; the channel holds one message
SendTrigger ==
    /\ sched.kind = "SchedulerWithTrigger"
    /\ task["sched"].pc \notin {"stopped", "panicked"}
    /\ trigger = 0
    /\ trigger' = 1
    /\ UNCHANGED <<config, cfgLock, failures, task, sched, slot, panel, bus, shutdown>>

\* main: SIGTERM or SIGINT arrives, shutdown_tx.send(())
Shutdown ==
    /\ ~shutdown
    /\ shutdown' = TRUE
    /\ UNCHANGED <<config, cfgLock, failures, task, sched, slot, panel, bus, trigger>>

\* a task that has ended: run() returned, the task panicked or was dropped
Ended(t) == task[t].pc \in {"stopped", "panicked", "dropped"}

\* a task is suspended at an await that is not ready: a request, a sleep, the
\* network, a lock that is not granted
Suspended(t) ==
    CASE task[t].pc \in {"idle", "settle", "sleeping", "download"} -> TRUE
      [] task[t].pc \in {"read", "render", "compute"} -> ~CanRead
      [] task[t].pc = "update" -> ~CanWrite
      [] task[t].pc \in PanelEntry -> ~CanLock
      [] OTHER -> FALSE

\* main after shutdown_tx.send: each JoinHandle is awaited for at most 5 s,
\* then main returns and the runtime is dropped.  The one thread runs main
\* only while every other task has ended or is suspended, and a task woken
\* by the signal is polled well within the 5 s.  A task that has not ended
\* is dropped at its await; the guards, the Sleep and the driver go with it,
\* and Drop for Epd7in3e puts the panel to sleep.
MainExit(fault) ==
    /\ shutdown
    /\ ~SchedWoken
    /\ \A t \in Tasks : Ended(t) \/ Suspended(t)
    /\ \E t \in Tasks : ~Ended(t)
    /\ task' = [t \in Tasks |-> IF Ended(t) THEN task[t]
                                 ELSE [pc |-> "dropped", op |-> task[t].op, buf |-> None,
                                       res |-> "none"]]
    /\ cfgLock' = {}
    /\ sched' = EndIteration
    /\ slot' = None
    /\ bus' = IF slot = None THEN bus ELSE epd_drop(Unwrap(slot), fault).trace
    /\ UNCHANGED <<config, failures, panel, shutdown, trigger>>

Routes == {"save", "apply", "show", "test", "clear"}

Faults == 0..MaxFault

\* the state after main has built the tasks, the scheduler being `kind`
InitWith(files, kind) ==
    /\ \E i \in 1..Len(files) : config = StartupConfig(files[i])
    /\ cfgLock = {}
    /\ failures = 0
    /\ task = [t \in Tasks |-> IdleTask(IF t = "sched" THEN "settle" ELSE "idle")]
    /\ sched = [kind |-> kind, base_interval |-> 0, interval |-> 0, last |-> "none",
                timer |-> Some(SETTLE_SECS)]
    /\ slot = None
    /\ panel = {}
    /\ bus = <<>>
    /\ shutdown = FALSE
    /\ trigger = 0

\* the steps of the refresh pipeline and of the panel controller
Pipeline ==
    \/ \E t \in Tasks : AcquireRead(t)
    \/ \E t \in Tasks, outcome \in DownloadOutcomes : Download(t, outcome)
    \/ \E t \in Tasks : LockPanel(t)
    \/ \E t \in Tasks, fault \in Faults : CtlInit(t, fault)
    \/ \E t \in Tasks, fault \in Faults : CtlDisplay(t, fault)

\* the seconds that pass in one step: a quarter of an hour, the longest sleep
ElapseSecs == {900, MinutesPerDay * 60}

\* the steps of Scheduler::run
SchedulerLoop ==
    \/ SchedSettle
    \/ SchedShutdown
    \/ \E now \in Clock : SchedCompute(now[1], now[2])
    \/ SchedTimer
    \/ Shutdown

(***************************************************************************)
(* Spec: the server as main.rs builds it, Scheduler::run beside one route  *)
(* handler, with the forms MainForms.                                      *)
(***************************************************************************)
MainFiles == SubSeq(StoredFiles, 1, 2)

MainForms == SubSeq(Forms, 1, 3)

Init == InitWith(MainFiles, "Scheduler")

Next ==
    \/ \E h \in Handlers, route \in Routes : Request(h, route)
    \/ \E h \in Handlers, i \in 1..Len(MainForms), save_ok \in BOOLEAN :
          UpdateConfig(h, MainForms[i], save_ok)
    \/ \E h \in Handlers : Render(h)
    \/ \E h \in Handlers : Respond(h)
    \/ Pipeline
    \/ \E t \in Tasks, fault \in Faults : CtlClear(t, fault)
    \/ \E t \in Tasks, fault \in Faults : CtlTest(t, fault)
    \/ \E t \in Tasks, fault \in Faults : CtlTest2(t, fault)
    \/ SchedulerLoop

Spec == Init /\ [][Next]_vars

(***************************************************************************)
(* SpecSched: the scheduler alone, of either kind, over the stored files.  *)
(***************************************************************************)
SchedulerKinds == {"Scheduler", "SchedulerWithTrigger"}

InitSched == \E kind \in SchedulerKinds : InitWith(StoredFiles, kind)

NextSched ==
    \/ Pipeline
    \/ SchedulerLoop
    \/ \E d \in ElapseSecs : Elapse(d)
    \/ SchedTrigger
    \/ SendTrigger

SpecSched == InitSched /\ [][NextSched]_vars

(***************************************************************************)
(* SpecExit: the scheduler of either kind and the return of main after the *)
(* shutdown signal.                                                        *)
(***************************************************************************)
NextExit ==
    \/ NextSched
    \/ \E fault \in Faults : MainExit(fault)

SpecExit == InitSched /\ [][NextExit]_vars

(***************************************************************************)
(* SpecWeb: one route handler alone, over the stored files and every form. *)
(***************************************************************************)
InitWeb == InitWith(StoredFiles, "Scheduler")

NextWeb ==
    \/ \E h \in Handlers, route \in Routes : Request(h, route)
    \/ \E h \in Handlers, i \in 1..Len(Forms), save_ok \in BOOLEAN :
          UpdateConfig(h, Forms[i], save_ok)
    \/ \E h \in Handlers : Render(h)
    \/ \E h \in Handlers : Respond(h)
    \/ Pipeline
    \/ \E t \in Tasks, fault \in Faults : CtlClear(t, fault)
    \/ \E t \in Tasks, fault \in Faults : CtlTest(t, fault)
    \/ \E t \in Tasks, fault \in Faults : CtlTest2(t, fault)

SpecWeb == InitWeb /\ [][NextWeb]_vars

(***************************************************************************)
(* SpecController: the DisplayController used by the scheduler and by a    *)
(* second caller that calls its methods in any order: the refresh          *)
(* ("show"), test_pattern, init then clear, and sleep.                     *)
(***************************************************************************)
ControllerRoutes == {"show", "test", "clear"}

InitController == InitWith(MainFiles, "Scheduler")

NextController ==
    \/ \E h \in Handlers, route \in ControllerRoutes : Request(h, route)
    \/ \E h \in Handlers : CallSleep(h)
    \/ \E h \in Handlers : Respond(h)
    \/ Pipeline
    \/ \E t \in Tasks, fault \in Faults : CtlClear(t, fault)
    \/ \E t \in Tasks, fault \in Faults : CtlTest(t, fault)
    \/ \E t \in Tasks, fault \in Faults : CtlTest2(t, fault)
    \/ \E t \in Tasks, fault \in Faults : CtlSleep(t, fault)
    \/ SchedulerLoop

SpecController == InitController /\ [][NextController]_vars

(***************************************************************************)
(* SpecLocks: the server of main.rs with one stored file and one form,     *)
(* for the order in which the tasks take the configuration lock and the    *)
(* panel mutex.  SpecLocksFair adds what the runtime and the locks         *)
(* guarantee: tokio's RwLock and Mutex queue their waiters first in,       *)
(* first out, so a request that can be granted again and again is granted  *)
(* (strong fairness of the grants); a task that can run is polled, a       *)
(* download ends (its retries and timeouts are bounded) and a panel        *)
(* operation returns (weak fairness of the steps in between).  Requests,   *)
(* the timer and the shutdown signal may or may not come.                  *)
(***************************************************************************)
LockFiles == SubSeq(StoredFiles, 2, 2)

\* a form that blanks the URL
LockForms == SubSeq(Forms, 4, 4)

InitLocks == InitWith(LockFiles, "Scheduler")

NextLocks ==
    \/ \E h \in Handlers, route \in Routes : Request(h, route)
    \/ \E h \in Handlers, i \in 1..Len(LockForms), save_ok \in BOOLEAN :
          UpdateConfig(h, LockForms[i], save_ok)
    \/ \E h \in Handlers : Render(h)
    \/ \E h \in Handlers : Respond(h)
    \/ Pipeline
    \/ \E t \in Tasks, fault \in Faults : CtlClear(t, fault)
    \/ \E t \in Tasks, fault \in Faults : CtlTest(t, fault)
    \/ \E t \in Tasks, fault \in Faults : CtlTest2(t, fault)
    \/ SchedulerLoop

SpecLocks == InitLocks /\ [][NextLocks]_vars

\* the task is between two awaits of a lock, in the download or in a panel
\* operation under the mutex: one of Download, CtlInit, CtlDisplay, CtlClear,
\* CtlTest, CtlTest2 is enabled for it
Running(t) == task[t].pc = "download" \/ InPanelOp(t)

\* that step is taken
Runs(t) == Running(t) /\ task'[t].pc # task[t].pc

\* the task is granted the read lock of a refresh (AcquireRead)
ReadGranted(t) == task[t].pc = "read" /\ task'[t].pc # "read"

\* the handler is granted the write lock of update_config (UpdateConfig)
WriteGranted == task["web1"].pc = "update" /\ task'["web1"].pc # "update"

\* the scheduler is granted the read lock at the head of its loop
\* (SchedCompute)
LoopReadGranted == task["sched"].pc = "compute" /\ task'["sched"].pc # "compute"

\* Strong fairness of the grants of the panel mutex and of the read lock of
\* the rendering; then, with ENABLED written out as the guard of the
\* action, weak fairness of the steps between two awaits (a task stays
\* there until it takes such a step), and strong fairness of the other
\* grants of the configuration lock: the grant cannot be made from some
\* time on, or it is made again and again.
SpecLocksFair ==
    /\ SpecLocks
    /\ \A t \in Tasks : SF_vars(LockPanel(t))
    /\ \A h \in Handlers : SF_vars(Render(h))
    /\ []<>(~Running("web1")) \/ []<><<Runs("web1")>>_vars
    /\ []<>(~Running("sched")) \/ []<><<Runs("sched")>>_vars
    /\ <>[](~(task["web1"].pc = "read" /\ CanRead)) \/ []<><<ReadGranted("web1")>>_vars
    /\ <>[](~(task["sched"].pc = "read" /\ CanRead)) \/ []<><<ReadGranted("sched")>>_vars
    /\ <>[](~(task["web1"].pc = "update" /\ CanWrite)) \/ []<><<WriteGranted>>_vars
    /\ <>[](~(task["sched"].pc = "compute" /\ CanRead)) \/ []<><<LoopReadGranted>>_vars

(***************************************************************************)
(* SpecDriver: one Epd7in3e driven directly, its methods called in any     *)
(* order.  slot holds the driver, bus the events of the last call, and the *)
(* caller's record that call (op), its buffer (buf) and its result (res).  *)
(***************************************************************************)
Caller == "web1"

\* the call the caller's record holds
CallArgs == Unwrap(task[Caller].buf)

\* the buffers handed to display(): a full frame, a 100x100 frame, none
DriverBuffers ==
    {[len |-> BUFFER_SIZE, content |-> <<"image">>],
     [len |-> calculate_buffer_size(100, 100), content |-> <<"image">>],
     [len |-> 0, content |-> <<"image">>]}

DriverFaults == 0..MaxDriverFault

\* the colours handed to clear(): Color::White, Color::Green
ClearColors == {1, 6}

\* a call of the driver returned r
Called(op, buffer, r) ==
    /\ slot' = Some(r.drv)
    /\ bus' = r.trace
    /\ task' = [task EXCEPT ![Caller] = [pc |-> "idle", op |-> op, buf |-> buffer,
                                         res |-> DisplayResult(r)]]
    /\ UNCHANGED <<config, cfgLock, failures, sched, panel, shutdown, trigger>>

DrvInit(fault) ==
    /\ slot # None
    /\ Called("init", None, epd_init(Unwrap(slot), fault))

DrvDisplay(buffer, fault) ==
    /\ slot # None
    /\ Called("display", Some(buffer), epd_display(Unwrap(slot), buffer, fault))

DrvClear(color, fault) ==
    /\ slot # None
    /\ Called("clear", None, epd_clear(Unwrap(slot), color, fault))

DrvTestPattern(fault) ==
    /\ slot # None
    /\ Called("test_pattern", None, epd_test_pattern(Unwrap(slot), fault))

DrvSleep(fault) ==
    /\ slot # None
    /\ Called("sleep", None, epd_sleep(Unwrap(slot), fault))

\* the driver goes out of scope: Drop for Epd7in3e, then for its fields.
\* The slot is empty afterwards and bus holds the events of the teardown.
DrvDrop(fault) ==
    /\ slot # None
    /\ slot' = None
    /\ bus' = epd_drop(Unwrap(slot), fault).trace
    /\ task' = [task EXCEPT ![Caller] = [pc |-> "idle", op |-> "drop", buf |-> None,
                                         res |-> "none"]]
    /\ UNCHANGED <<config, cfgLock, failures, sched, panel, shutdown, trigger>>

\* Epd7in3e::new() returns a driver
DrvNew ==
    /\ slot = None
    /\ slot' = Some(NewDriver)
    /\ bus' = <<<<"rst", TRUE>>, <<"dc", FALSE>>, <<"pwr", FALSE>>>>
    /\ task' = [task EXCEPT ![Caller] = [pc |-> "idle", op |-> "new", buf |-> None,
                                         res |-> "Ok"]]
    /\ UNCHANGED <<config, cfgLock, failures, sched, panel, shutdown, trigger>>

\* the configurations of the program the driver runs in: the default
\* 800 x 480 and a 100 x 100 display
DriverConfigs ==
    {DefaultConfig, [DefaultConfig EXCEPT !.display_width = 100, !.display_height = 100]}

\* Epd7in3e::new() has returned the driver
InitDriver ==
    /\ config \in DriverConfigs
    /\ cfgLock = {}
    /\ failures = 0
    /\ task = [t \in Tasks |-> IdleTask(IF t = "sched" THEN "stopped" ELSE "idle")]
    /\ sched = [kind |-> "Scheduler", base_interval |-> 0, interval |-> 0, last |-> "none",
                timer |-> None]
    /\ slot = Some(NewDriver)
    /\ panel = {}
    /\ bus = <<>>
    /\ shutdown = FALSE
    /\ trigger = 0

NextDriver ==
    \/ \E fault \in DriverFaults : DrvInit(fault)
    \/ \E buffer \in DriverBuffers, fault \in DriverFaults : DrvDisplay(buffer, fault)
    \/ \E color \in ClearColors, fault \in DriverFaults : DrvClear(color, fault)
    \/ \E fault \in DriverFaults : DrvTestPattern(fault)
    \/ \E fault \in DriverFaults : DrvSleep(fault)
    \/ \E fault \in DriverFaults : DrvDrop(fault)
    \/ DrvNew

SpecDriver == InitDriver /\ [][NextDriver]_vars

(***************************************************************************)
(* SpecBackoff: the interval computation of run() for every base interval  *)
(* a schedule period can give, under any sequence of refresh results.      *)
(***************************************************************************)
\* SchedulePeriod::validate admits interval_min in 1..=1440
IntervalMinutes == 1..MinutesPerDay

InitBackoff ==
    /\ config = DefaultConfig
    /\ cfgLock = {}
    /\ failures = 0
    /\ task = [t \in Tasks |-> IdleTask(IF t = "sched" THEN "sleeping" ELSE "idle")]
    /\ \E interval_min \in IntervalMinutes :
          sched = [kind |-> "Scheduler", base_interval |-> interval_min * 60,
                   interval |-> get_effective_interval(0, interval_min * 60),
                   last |-> "none",
                   timer |-> Some(get_effective_interval(0, interval_min * 60))]
    /\ slot = None
    /\ panel = {}
    /\ bus = <<>>
    /\ shutdown = FALSE
    /\ trigger = 0

\* one iteration of run(): the refresh returns, the next interval is computed
Iteration(n_failures, last) ==
    /\ failures' = n_failures
    /\ sched' = [sched EXCEPT !.interval = get_effective_interval(n_failures,
                                                                  sched.base_interval),
                              !.last = last,
                              !.timer = Some(get_effective_interval(n_failures,
                                                                    sched.base_interval))]
    /\ UNCHANGED <<config, cfgLock, task, slot, panel, bus, shutdown, trigger>>

IterationOk ==
    /\ task["sched"].pc = "sleeping"
    /\ Iteration(OnRefreshOk(failures), "ok")

IterationErr ==
    /\ failures < MaxBackoffFailures
    /\ Iteration(OnRefreshErr(failures), "err")

NextBackoff == IterationOk \/ IterationErr

SpecBackoff == InitBackoff /\ [][NextBackoff]_vars

(***************************************************************************)
(* SpecDownload: download_with_retry and download_image_with_config called *)
(* directly, for every retry count up to MaxRetries and every sequence of  *)
(* responses.  The caller's record holds the call (op), its arguments      *)
(* (buf) and its result (res); bus holds the requests and sleeps it made.  *)
(***************************************************************************)
\* the URLs: http://a, the same between blanks, blanks, the empty string
Urls == {UrlA, <<" ">> \o UrlA \o <<"\n">>, BlankUrl, <<>>}

RetryDelays == {2, 5}

DownloadConfigs ==
    {[max_retries |-> n, retry_delay |-> d] : n \in 0..MaxRetries, d \in RetryDelays}

\* a transport error, 404, 500, 200 with a body that cannot be read, 200 with
\* bytes that are no image, 200 with an image
Responses ==
    {[send |-> "Err", status |-> 0, body |-> None],
     [send |-> "Ok", status |-> 404, body |-> Some(<<"page">>)],
     [send |-> "Ok", status |-> 500, body |-> None],
     [send |-> "Ok", status |-> 200, body |-> None],
     [send |-> "Ok", status |-> 200, body |-> Some(<<"garbage">>)],
     [send |-> "Ok", status |-> 200, body |-> Some(<<800, 480>>)]}

\* what the server answers to the first, second, ... of n requests
ResponseSeqs(n) == [1..n -> Responses]

\* a call has returned r
Downloaded(op, url, c, responses, r) ==
    /\ bus' = r.trace
    /\ task' = [task EXCEPT ![Caller] =
                  [pc |-> "returned", op |-> op,
                   buf |-> Some([url |-> url, config |-> c, responses |-> responses]),
                   res |-> r.result]]
    /\ UNCHANGED <<config, cfgLock, failures, sched, slot, panel, shutdown, trigger>>

DownloadWithRetry(url, c, responses) ==
    /\ task[Caller].pc = "idle"
    /\ Downloaded("download_with_retry", url, c, responses,
                  download_with_retry(url, c, responses, 0, None, <<>>))

DownloadImageWithConfig(url, c, responses) ==
    /\ task[Caller].pc = "idle"
    /\ Downloaded("download_image_with_config", url, c, responses,
                  download_image_with_config(url, c, responses))

\* download_image: the default configuration
DownloadImage(url, responses) ==
    /\ task[Caller].pc = "idle"
    /\ Downloaded("download_image", url, DefaultDownloadConfig, responses,
                  download_image_with_config(url, DefaultDownloadConfig, responses))

InitDownload ==
    /\ config = DefaultConfig
    /\ cfgLock = {}
    /\ failures = 0
    /\ task = [t \in Tasks |-> IdleTask(IF t = "sched" THEN "stopped" ELSE "idle")]
    /\ sched = [kind |-> "Scheduler", base_interval |-> 0, interval |-> 0, last |-> "none",
                timer |-> None]
    /\ slot = None
    /\ panel = {}
    /\ bus = <<>>
    /\ shutdown = FALSE
    /\ trigger = 0

NextDownload ==
    \/ /\ task[Caller].pc = "idle"
       /\ \E url \in {Trim(u) : u \in Urls} \ {<<>>}, c \in DownloadConfigs :
             \E responses \in ResponseSeqs(c.max_retries) :
                DownloadWithRetry(url, c, responses)
    \/ /\ task[Caller].pc = "idle"
       /\ \E url \in Urls, c \in DownloadConfigs :
             \E responses \in ResponseSeqs(c.max_retries) :
                DownloadImageWithConfig(url, c, responses)
    \/ /\ task[Caller].pc = "idle"
       /\ \E url \in Urls, responses \in ResponseSeqs(DefaultDownloadConfig.max_retries) :
             DownloadImage(url, responses)

SpecDownload == InitDownload /\ [][NextDownload]_vars

(***************************************************************************)
(* SpecLoad: Config::load step by step on a deserialized file, migration   *)
(* then validation, and the lookups of the scheduler on a loaded           *)
(* configuration at every minute of the day.  config holds the Config      *)
(* value; the caller's record holds the step (op), its arguments and       *)
(* what it returned (buf, res).                                            *)
(***************************************************************************)
PlanOverlap ==
    SchedulePlan(<<"O", "v", "e", "r">>,
                 <<SchedulePeriod(HHMM(0, 0), HHMM(12, 0), 10),
                   SchedulePeriod(HHMM(6, 0), HHMM(0, 0), 20)>>)

PlanThree ==
    SchedulePlan(<<"T", "h", "r", "e", "e">>,
                 <<SchedulePeriod(HHMM(20, 0), HHMM(0, 0), 240),
                   SchedulePeriod(HHMM(0, 0), HHMM(8, 0), 15),
                   SchedulePeriod(HHMM(8, 0), HHMM(20, 0), 30)>>)

\* one period that starts and ends at 06:00
PlanWrap == SchedulePlan(<<"W", "r", "a", "p">>, <<SchedulePeriod(HHMM(6, 0), HHMM(6, 0), 45)>>)

\* midnight written 0:00, which is not the text of the all-day shorthand
PlanShort ==
    SchedulePlan(<<"S", "h", "o", "r", "t">>,
                 <<SchedulePeriod(<<"0", ":", "0", "0">>, <<"0", ":", "0", "0">>, 5)>>)

PlanTwice ==
    SchedulePlan(<<"T", "w", "i", "c", "e">>,
                 <<SchedulePeriod(MidnightStr, MidnightStr, 60),
                   SchedulePeriod(MidnightStr, MidnightStr, 60)>>)

PlanBadTime ==
    SchedulePlan(<<"B", "a", "d">>, <<SchedulePeriod(<<"2", "5", ":", "0", "0">>, MidnightStr, 60)>>)

PlanZero == SchedulePlan(<<"Z", "e", "r", "o">>, <<SchedulePeriod(MidnightStr, MidnightStr, 0)>>)

PlanNoPeriods == SchedulePlan(<<"N", "o", "n", "e">>, <<>>)

PlanBlankName == SchedulePlan(<<" ">>, <<SchedulePeriod(MidnightStr, MidnightStr, 60)>>)

\* a second plan named Day
PlanDayAgain == SchedulePlan(PlanDayNight.name, <<SchedulePeriod(MidnightStr, MidnightStr, 90)>>)

PlanLists ==
    {<<>>, <<default_plan>>, <<PlanDayNight>>, <<PlanFast>>, <<PlanGap>>, <<PlanOverlap>>,
     <<PlanThree>>, <<PlanWrap>>, <<PlanShort>>, <<PlanTwice>>, <<PlanBadTime>>, <<PlanZero>>,
     <<PlanNoPeriods>>, <<PlanBlankName>>, <<PlanDayNight, PlanFast>>,
     <<PlanDayNight, PlanDayAgain>>, <<PlanFast, PlanThree, PlanWrap>>,
     <<PlanWrap, PlanOverlap>>}

\* the day assignments tried with a list of plans: every day on the first
\* plan; the week-end on the last; Sunday on a plan that does not exist;
\* no entry for Sunday
Assignments(plans) ==
    IF plans = <<>> THEN {default_day_assignments}
    ELSE {[day \in WeekdaySet |-> plans[1].name],
          [day \in WeekdaySet |-> IF day \in {"Saturday", "Sunday"}
                                  THEN plans[Len(plans)].name ELSE plans[1].name],
          [day \in WeekdaySet |-> IF day = "Sunday" THEN <<"N", "o">> ELSE plans[1].name],
          [day \in WeekdaySet \ {"Sunday"} |-> plans[1].name]}

\* files with the legacy fields: a schedule, an interval, both (a schedule
\* of one period every 60 min, and of two periods), an empty schedule, an
\* interval of 0, a schedule with a gap, and legacy fields beside plans
LegacyFiles ==
    {[DefaultConfig EXCEPT !.schedule = Some(PlanDayNight.periods)],
     [DefaultConfig EXCEPT !.refresh_interval_min = Some(15)],
     [DefaultConfig EXCEPT !.schedule = Some(<<SchedulePeriod(HHMM(8, 0), HHMM(8, 0), 60)>>),
                           !.refresh_interval_min = Some(15)],
     [DefaultConfig EXCEPT !.schedule = Some(PlanDayNight.periods),
                           !.refresh_interval_min = Some(15)],
     [DefaultConfig EXCEPT !.schedule = Some(<<>>)],
     [DefaultConfig EXCEPT !.schedule = Some(<<>>), !.refresh_interval_min = Some(1440)],
     [DefaultConfig EXCEPT !.refresh_interval_min = Some(0)],
     [DefaultConfig EXCEPT !.schedule = Some(PlanGap.periods)],
     [DefaultConfig EXCEPT !.schedule = Some(PlanThree.periods),
                           !.refresh_interval_min = Some(15),
                           !.schedule_plans = <<PlanDayNight, PlanFast>>,
                           !.day_assignments = [day \in WeekdaySet |-> PlanFast.name]]}

\* the values serde_json::from_str gives Config::load
ConfigFiles ==
    LegacyFiles \cup
    UNION {{[DefaultConfig EXCEPT !.schedule_plans = plans, !.day_assignments = a] :
              a \in Assignments(plans)} : plans \in PlanLists}

\* a step of the caller: its name, its arguments, what it returned
Stepped(pc, op, args, res) ==
    /\ task' = [task EXCEPT ![Caller] = [pc |-> pc, op |-> op, buf |-> args, res |-> res]]
    /\ UNCHANGED <<cfgLock, failures, sched, slot, panel, bus, shutdown, trigger>>

\* Config::load: config.migrate_legacy_config()
Migrate ==
    /\ task[Caller].pc = "parsed"
    /\ config' = migrate_legacy_config(config)
    /\ Stepped("migrated", "migrate_legacy_config", Some(config), "none")

\* Config::load: config.validate()?
Validate ==
    /\ task[Caller].pc = "migrated"
    /\ UNCHANGED config
    /\ IF validate(config) THEN Stepped("loaded", "load", None, "Ok")
       ELSE Stepped("rejected", "load", None, "Err(ValidationError)")

\* SchedulePlan::get_period_for_time on plan i of the loaded configuration
GetPeriodForTime(i, time_minutes) ==
    /\ task[Caller].pc = "loaded"
    /\ UNCHANGED config
    /\ Stepped("returned", "get_period_for_time",
               Some([plan |-> i, time_minutes |-> time_minutes,
                     period |-> get_period_for_time(config.schedule_plans[i], time_minutes)]),
               "none")

\* SchedulePlan::get_interval_for_time on plan i of the loaded configuration
GetIntervalForTime(i, time_minutes) ==
    /\ task[Caller].pc = "loaded"
    /\ UNCHANGED config
    /\ Stepped("returned", "get_interval_for_time",
               Some([plan |-> i, time_minutes |-> time_minutes,
                     interval |-> get_interval_for_time(config.schedule_plans[i],
                                                        time_minutes)]),
               "none")

\* Config::get_plan_for_day on the loaded configuration
GetPlanForDay(day) ==
    /\ task[Caller].pc = "loaded"
    /\ UNCHANGED config
    /\ Stepped("returned", "get_plan_for_day",
               Some([day |-> day, plan |-> get_plan_for_day(config, day)]), "none")

InitLoad ==
    /\ config \in ConfigFiles
    /\ cfgLock = {}
    /\ failures = 0
    /\ task = [t \in Tasks |-> IdleTask(IF t = "sched" THEN "stopped" ELSE "parsed")]
    /\ sched = [kind |-> "Scheduler", base_interval |-> 0, interval |-> 0, last |-> "none",
                timer |-> None]
    /\ slot = None
    /\ panel = {}
    /\ bus = <<>>
    /\ shutdown = FALSE
    /\ trigger = 0

NextLoad ==
    \/ Migrate
    \/ Validate
    \/ /\ task[Caller].pc = "loaded"
       /\ \E i \in 1..Len(config.schedule_plans), time_minutes \in 0..(MinutesPerDay - 1) :
             GetPeriodForTime(i, time_minutes)
    \/ /\ task[Caller].pc = "loaded"
       /\ \E i \in 1..Len(config.schedule_plans), time_minutes \in 0..(MinutesPerDay - 1) :
             GetIntervalForTime(i, time_minutes)
    \/ \E day \in WeekdaySet : GetPlanForDay(day)

SpecLoad == InitLoad /\ [][NextLoad]_vars

(***************************************************************************)
(* SpecDither: dither_image called on small images, pixel by pixel.  The   *)
(* caller records the image and the colour indices chosen (buf), whether   *)
(* the call returned or panicked (res), and bus holds the bytes returned.  *)
(***************************************************************************)
MaxPixels == 6

MaxSide == 4

White == <<255, 255, 255>>

\* the pixel values of the images: white, black and a brown that dithers to
\* several palette colours
Shades == {White, <<0, 0, 0>>, <<200, 100, 50>>}

\* every image of at most MaxPixels pixels over Shades
SmallImages ==
    UNION {{[width |-> d[1], height |-> d[2], px |-> px] :
               px \in [1..(d[1] * d[2]) -> Shades]} :
           d \in {e \in (1..MaxPixels) \X (1..MaxPixels) : e[1] * e[2] <= MaxPixels}}

\* the all-white images of up to MaxSide x MaxSide
WhiteImages ==
    {[width |-> w, height |-> h, px |-> [k \in 1..(w * h) |-> White]] :
        w \in 1..MaxSide, h \in 1..MaxSide}

DitherImage(img) ==
    /\ task[Caller].pc = "idle"
    /\ \E r \in {dither_image_pixels(img)} :
           /\ bus' = IF r.result = None THEN <<>> ELSE Unwrap(r.result)
           /\ task' = [task EXCEPT ![Caller] =
                         [pc |-> IF r.result = None THEN "panicked" ELSE "returned",
                          op |-> "dither_image",
                          buf |-> Some([img |-> img, chosen |-> r.chosen]),
                          res |-> IF r.result = None THEN "panic" ELSE "Ok"]]
    /\ UNCHANGED <<config, cfgLock, failures, sched, slot, panel, shutdown, trigger>>

InitDither == InitDownload

NextDither ==
    /\ task[Caller].pc = "idle"
    /\ \E img \in SmallImages \cup WhiteImages : DitherImage(img)

SpecDither == InitDither /\ [][NextDither]_vars

(***************************************************************************)
(* SpecScanline: dither_image run one scanline at a time.  The caller      *)
(* records the image, the scanline y that comes next and the locals of the *)
(* function (buf); bus holds the bytes returned.                           *)
(***************************************************************************)
\* a grey that is far from every palette colour
Grey == <<127, 127, 127>>

\* the images of up to 3 x 3 and MaxPixels pixels over white, grey and a brown
ScanImages ==
    UNION {{[width |-> d[1], height |-> d[2], px |-> px] :
               px \in [1..(d[1] * d[2]) -> {White, Grey, <<200, 100, 50>>}]} :
           d \in {e \in (1..3) \X (1..3) : e[1] * e[2] <= MaxPixels}}

\* dither_image is entered: the rows and the result are allocated
ScanStart(img) ==
    /\ task[Caller].pc = "idle"
    /\ task' = [task EXCEPT ![Caller] =
                  [pc |-> "scanning", op |-> "dither_image",
                   buf |-> Some([img |-> img, y |-> 0, s |-> DitherStart(img)]),
                   res |-> "none"]]
    /\ UNCHANGED <<config, cfgLock, failures, sched, slot, panel, bus, shutdown, trigger>>

\* one turn of `for y`: the load, the pixels of the scanline, swap and clear
ScanLine ==
    /\ task[Caller].pc = "scanning"
    /\ CallArgs.y < CallArgs.img.height
    /\ LET img == CallArgs.img
           s == DitherUpTo(img, CallArgs.y * img.width, (CallArgs.y + 1) * img.width,
                           CallArgs.s)
       IN  task' = [task EXCEPT ![Caller].pc = IF s.panicked THEN "panicked" ELSE "scanning",
                                ![Caller].res = IF s.panicked THEN "panic" ELSE "none",
                                ![Caller].buf = Some([CallArgs EXCEPT !.y = @ + 1, !.s = s])]
    /\ UNCHANGED <<config, cfgLock, failures, sched, slot, panel, bus, shutdown, trigger>>

\* the loop is left and result is returned
ScanReturn ==
    /\ task[Caller].pc = "scanning"
    /\ CallArgs.y = CallArgs.img.height
    /\ bus' = CallArgs.s.result
    /\ task' = [task EXCEPT ![Caller].pc = "returned", ![Caller].res = "Ok"]
    /\ UNCHANGED <<config, cfgLock, failures, sched, slot, panel, shutdown, trigger>>

InitScanline == InitDownload

NextScanline ==
    \/ \E img \in ScanImages : ScanStart(img)
    \/ ScanLine
    \/ ScanReturn

SpecScanline == InitScanline /\ [][NextScanline]_vars

(***************************************************************************)
(* SpecTransform: transform_image called on sources of several shapes with *)
(* every combination of its options, in builds with and without overflow   *)
(* checks.  The caller records the arguments (buf); bus holds the           *)
(* dimensions of the image returned, and res is "panic" when none is.      *)
(***************************************************************************)
\* sides of the source images
SourceSides == {1, 7, 97, 800}

\* display widths and heights within the range Config::validate admits
TargetWidths == {100, 800, 2000}

TargetHeights == {100, 480, 2000}

\* Rotation::from(u16) of the rotations Config::validate admits
Rotations == {0, 90, 180, 270}

TransformOptions ==
    [rotation : Rotations, mirror_h : BOOLEAN, mirror_v : BOOLEAN, scale_to_fit : BOOLEAN,
     rotate_first : BOOLEAN, display_width : TargetWidths, display_height : TargetHeights]

TransformImage(src, options, overflow_checks) ==
    /\ task[Caller].pc = "idle"
    /\ LET img == transform_image(src, options, overflow_checks)
       IN  /\ bus' = img
           /\ task' = [task EXCEPT ![Caller] =
                         [pc |-> IF img = None THEN "panicked" ELSE "returned",
                          op |-> "transform_image",
                          buf |-> Some([src |-> src, options |-> options,
                                        overflow_checks |-> overflow_checks]),
                          res |-> IF img = None THEN "panic" ELSE "Ok"]]
    /\ UNCHANGED <<config, cfgLock, failures, sched, slot, panel, shutdown, trigger>>

InitTransform == InitDownload

NextTransform ==
    /\ task[Caller].pc = "idle"
    /\ \E src \in SourceSides \X SourceSides, options \in TransformOptions,
          overflow_checks \in BOOLEAN :
          TransformImage(src, options, overflow_checks)

SpecTransform == InitTransform /\ [][NextTransform]_vars

(***************************************************************************)
(* SpecParse: SchedulePeriod::parse_time called on every HH:MM text of the *)
(* day and on every text of up to MaxTimeLen characters over TimeChars.    *)
(* The caller records the text (buf); bus holds Some(minutes) for Ok and   *)
(* None for an error.                                                      *)
(***************************************************************************)
MaxTimeLen == 5

TimeChars == {"0", "2", "6", ":", "+", "a"}

TimeTexts ==
    {HHMM(h, m) : h \in 0..23, m \in 0..59}
    \cup UNION {[1..n -> TimeChars] : n \in 0..MaxTimeLen}

ParseTime(time_str) ==
    /\ task[Caller].pc = "idle"
    /\ LET r == parse_time(time_str)
       IN  /\ bus' = r
           /\ task' = [task EXCEPT ![Caller] =
                         [pc |-> "returned", op |-> "parse_time", buf |-> Some(time_str),
                          res |-> IF r = None THEN "Err(ValidationError)" ELSE "Ok"]]
    /\ UNCHANGED <<config, cfgLock, failures, sched, slot, panel, shutdown, trigger>>

InitParse == InitDownload

NextParse ==
    /\ task[Caller].pc = "idle"
    /\ \E time_str \in TimeTexts : ParseTime(time_str)

SpecParse == InitParse /\ [][NextParse]_vars

(***************************************************************************)
(* SpecBusy: init, display and sleep of one Epd7in3e taken step by step,   *)
(* with the polling loop of wait_busy_timeout in each busy-wait.  The      *)
(* caller's buf holds the position `at` in the steps of the operation, the *)
(* milliseconds `elapsed` since the wait began and the `level` last read   *)
(* from the BUSY pin; bus holds the events of the operation so far.        *)
(* SpecBusyFair adds that the thread, which nothing preempts for ever,     *)
(* goes on running.                                                        *)
(***************************************************************************)
BUSY_TIMEOUT_MS == 30000

POLL_INTERVAL_MS == 100

\* what thread::sleep(poll_interval) takes: the interval, or longer
PollSleeps == {POLL_INTERVAL_MS, 2 * POLL_INTERVAL_MS}

BusyOps == {"init", "display", "sleep"}

FullBuffer == [len |-> BUFFER_SIZE, content |-> <<"image">>]

\* the steps of an operation after its guards
OpSteps(op) ==
    CASE op = "init" -> InitSteps
      [] op = "display" ->
            write_command(DATA_START) \o write_buffer_bulk(FullBuffer) \o turn_on_display
      [] op = "sleep" ->
            write_command(POWER_OFF) \o wait_busy
            \o write_command_data(DEEP_SLEEP, <<165>>) \o power_off

\* the operation as a whole, its fallible step number `fault` failing
OpResult(op, drv, fault) ==
    CASE op = "init" -> epd_init(drv, fault)
      [] op = "display" -> epd_display(drv, FullBuffer, fault)
      [] op = "sleep" -> epd_sleep(drv, fault)

BusyState(pc, op, at, elapsed, level, res) ==
    [pc |-> pc, op |-> op, buf |-> Some([at |-> at, elapsed |-> elapsed, level |-> level]),
     res |-> res]

\* the operation returns: Ok after its last step, else the error of the
\* fallible step that follows the events on the bus
BusyReturn(failed, level, elapsed) ==
    LET n == Len(SelectSeq(bus, IsFallible))
        r == OpResult(task[Caller].op, Unwrap(slot), IF failed THEN n + 1 ELSE 0)
    IN  /\ slot' = Some(r.drv)
        /\ bus' = bus
        /\ task' = [task EXCEPT ![Caller] =
                      BusyState("returned", task[Caller].op, CallArgs.at, elapsed, level,
                                DisplayResult(r))]

\* a caller calls init(), display(&buffer) or sleep()
BusyCall(op) ==
    /\ task[Caller].pc \in {"idle", "returned"}
    /\ bus' = <<>>
    /\ slot' = slot
    /\ task' = [task EXCEPT ![Caller] =
                  IF op = "display" /\ ~Unwrap(slot).initialized
                  THEN BusyState("returned", op, 1, 0, "none", "Err(Display(NotInitialized))")
                  ELSE BusyState("running", op, 1, 0, "none", "none")]
    /\ UNCHANGED <<config, cfgLock, failures, sched, panel, shutdown, trigger>>

\* the next step of the operation: a pin is driven, an SPI write succeeds
\* or fails, a busy-wait begins, or the steps are over
BusyStep(ok) ==
    /\ task[Caller].pc = "running"
    /\ LET steps == OpSteps(task[Caller].op)
           at == CallArgs.at
       IN  IF at > Len(steps) THEN ok /\ BusyReturn(FALSE, "none", 0)
           ELSE IF steps[at][1] = "busy"
           THEN /\ ok
                /\ task' = [task EXCEPT ![Caller] =
                              BusyState("polling", task[Caller].op, at, 0, "none", "none")]
                /\ UNCHANGED <<slot, bus>>
           ELSE IF steps[at][1] = "spi" /\ ~ok THEN BusyReturn(TRUE, "none", 0)
           ELSE /\ ok
                /\ bus' = Append(bus, steps[at])
                /\ task' = [task EXCEPT ![Caller] =
                              BusyState("running", task[Caller].op, at + 1, 0, "none", "none")]
                /\ slot' = slot
    /\ UNCHANGED <<config, cfgLock, failures, sched, panel, shutdown, trigger>>

\* a wait_busy_timeout whose timeout starts the wait again
WaitBusyRetrying(level, d) ==
    /\ task[Caller].pc = "polling"
    /\ IF level = "High"
       THEN /\ bus' = Append(bus, <<"busy">>)
            /\ task' = [task EXCEPT ![Caller] =
                          BusyState("running", task[Caller].op, CallArgs.at + 1,
                                    CallArgs.elapsed, level, "none")]
            /\ slot' = slot
       ELSE /\ task' = [task EXCEPT ![Caller] =
                          BusyState("polling", task[Caller].op, CallArgs.at,
                                    IF CallArgs.elapsed > BUSY_TIMEOUT_MS THEN 0
                                    ELSE CallArgs.elapsed + d, level, "none")]
            /\ UNCHANGED <<slot, bus>>
    /\ UNCHANGED <<config, cfgLock, failures, sched, panel, shutdown, trigger>>

\* one turn of the loop of wait_busy_timeout: the pin is read; High ends
\* the wait with Ok; Low past the timeout ends it with BusyTimeout, which
\* the operation returns; else the thread sleeps d ms
WaitBusy(level, d) ==
    /\ task[Caller].pc = "polling"
    /\ IF level = "High"
       THEN /\ bus' = Append(bus, <<"busy">>)
            /\ task' = [task EXCEPT ![Caller] =
                          BusyState("running", task[Caller].op, CallArgs.at + 1,
                                    CallArgs.elapsed, level, "none")]
            /\ slot' = slot
       ELSE IF CallArgs.elapsed > BUSY_TIMEOUT_MS
       THEN BusyReturn(TRUE, level, CallArgs.elapsed)
       ELSE /\ task' = [task EXCEPT ![Caller] =
                          BusyState("polling", task[Caller].op, CallArgs.at,
                                    CallArgs.elapsed + d, level, "none")]
            /\ UNCHANGED <<slot, bus>>
    /\ UNCHANGED <<config, cfgLock, failures, sched, panel, shutdown, trigger>>

\* Epd7in3e::new() has returned the driver
InitBusy ==
    /\ config = DefaultConfig
    /\ cfgLock = {}
    /\ failures = 0
    /\ task = [t \in Tasks |-> IdleTask(IF t = "sched" THEN "stopped" ELSE "idle")]
    /\ sched = [kind |-> "Scheduler", base_interval |-> 0, interval |-> 0, last |-> "none",
                timer |-> None]
    /\ slot = Some(NewDriver)
    /\ panel = {}
    /\ bus = <<>>
    /\ shutdown = FALSE
    /\ trigger = 0

NextBusy ==
    \/ \E op \in BusyOps : BusyCall(op)
    \/ \E ok \in BOOLEAN : BusyStep(ok)
    \/ \E level \in {"Low", "High"}, d \in PollSleeps : WaitBusy(level, d)

SpecBusy == InitBusy /\ [][NextBusy]_vars

\* the thread that runs the operation is not held up for ever
SpecBusyFair == SpecBusy /\ WF_vars(NextBusy)

(***************************************************************************)
(* Properties                                                              *)
(***************************************************************************)

\* C1 (SpecWeb): in every reachable state the shared configuration passes
\* Config::validate, after startup and after any calls of update_config,
\* failed ones included.
C1_SharedConfigValid == validate(config)

\* C2 (SpecWeb): when update_config returns an error the shared
\* configuration is what it was before the call.
C2_FailedUpdateKeepsConfig ==
    [][\A h \in Handlers :
          (task[h].pc = "update" /\ task'[h].pc # "update" /\ IsErr(task'[h].res))
             => config' = config]_vars

\* C3 (SpecSched): with a configuration that passes validate, the buffer a
\* task is about to hand to display() has BUFFER_SIZE bytes, and no refresh
\* ends with InvalidBufferSize.
C3_BufferIsFullFrame ==
    validate(config) =>
       \A t \in Tasks :
          /\ task[t].pc \in {"display", "display_locked"}
                => Unwrap(task[t].buf).len = BUFFER_SIZE
          /\ task[t].res # "Err(Display(InvalidBufferSize))"

C5_OnePanelUser ==
    /\ Cardinality({t \in Tasks : InPanelOp(t)}) <= 1
    /\ panel = {t \in Tasks : InPanelOp(t)}

\* one task is inside a panel operation while the other waits to enter one
C5_Witness ==
    \E t \in Tasks, u \in Tasks :
       /\ t # u
       /\ InPanelOp(t)
       /\ task[u].pc \in PanelEntry

\* C6 (SpecSched): the scheduler's run() has ended only if shutdown was
\* signalled; no failed refresh ends it.
C6_RunsUntilShutdown == task["sched"].pc \in {"stopped", "panicked"} => shutdown

\* C7 (SpecBackoff): the interval run() sleeps is the base interval while
\* failures < 5, and min(base * 2^min(failures - 5 + 1, 6), 3600) seconds
\* from 5 failures on, for every interval_min in 1..1440.
C7_EffectiveInterval ==
    sched.interval =
       IF failures < 5 THEN sched.base_interval
       ELSE LET e == IF failures - 4 < 6 THEN failures - 4 ELSE 6
                b == sched.base_interval * (2 ^ e)
            IN  IF b < 3600 THEN b ELSE 3600

\* seven failures on a one-minute base: 60 * 2^3 seconds
C7_Witness == failures = 7 /\ sched.base_interval = 60 /\ sched.interval = 480

\* C8 (SpecBackoff): for a fixed base interval the effective interval is the
\* base below 5 failures, does not decrease when a failure is added at 5 or
\* more, stays within the hour from 5 failures on, and is the base again
\* right after a successful refresh.
C8_BackoffMonotone ==
    [][/\ failures' < 5 => sched'.interval = sched'.base_interval
       /\ (failures >= 5 /\ failures' = failures + 1)
             => sched'.interval >= sched.interval
       /\ failures' >= 5 => sched'.interval <= 3600
       /\ sched'.last = "ok" => sched'.interval = sched'.base_interval
       /\ sched'.base_interval = sched.base_interval]_vars

\* the sixth failure on a ten-minute base: the interval has doubled twice
C8_Witness ==
    /\ failures = 6
    /\ sched.last = "err"
    /\ sched.base_interval = 600
    /\ sched.interval = 2400

\* C9 (SpecSched): every refresh of the scheduler that returns an error adds
\* one to consecutive_failures, every one that succeeds sets it to zero, and
\* nothing else changes it, whether the timer or the trigger started the
\* refresh.
C9_FailureCount ==
    [][IF task["sched"].pc # "compute" /\ task'["sched"].pc = "compute"
       THEN CASE task'["sched"].res = "Ok" -> failures' = 0
              [] task'["sched"].res = "none" -> failures' = failures
              [] OTHER -> failures' = failures + 1
       ELSE failures' = failures]_vars

\* a refresh started by the trigger has failed after an earlier failure
C9_Witness ==
    /\ failures = 2
    /\ task["sched"].pc = "compute"
    /\ task["sched"].op = "trigger"
    /\ IsErr(task["sched"].res)

\* C10 (SpecSched): a scheduled refresh that finds the image URL empty or
\* blank returns at once: the counter, the panel, the bus and the
\* configuration are as before, and no download is started.
C10_BlankUrlSkips ==
    [][(/\ task["sched"].pc = "read"
        /\ \A i \in 1..Len(config.image_url) : config.image_url[i] \in Whitespace
        /\ task'["sched"] # task["sched"])
          => /\ task'["sched"].pc = "compute"
             /\ failures' = failures
             /\ bus' = bus
             /\ slot' = slot
             /\ panel' = panel
             /\ cfgLock' = cfgLock
             /\ config' = config]_vars

\* the scheduler has skipped a refresh on a URL of blanks
C10_Witness ==
    /\ sched.last = "skipped"
    /\ config.image_url = BlankUrl
    /\ task["sched"].pc = "compute"

\* C11 (SpecSched): a trigger received while run() sleeps starts a refresh
\* and leaves the pending timer as it is: the time left to the next tick is
\* the same after the trigger's step as before it.
C11_TriggerKeepsTimer ==
    [][(/\ task["sched"].pc = "sleeping"
        /\ task'["sched"].pc = "read"
        /\ task'["sched"].op = "trigger")
          => sched'.timer = sched.timer]_vars

\* C12 (SpecSched): when shutdown has been signalled before the settle delay
\* is over, the scheduler's next step is the return of run(): no download is
\* started, the panel, its bus and its mutex, the failure counter, the read
\* guards and the configuration are untouched; and once run() has returned
\* the scheduler does nothing more.
C12_ShutdownInSettle ==
    [][/\ (/\ task["sched"].pc = "settle"
            /\ shutdown
            /\ sched.timer # Some(0)
            /\ task'["sched"] # task["sched"])
              => /\ task'["sched"] = IdleTask("stopped")
                 /\ failures' = failures
                 /\ bus' = bus
                 /\ slot' = slot
                 /\ panel' = panel
                 /\ cfgLock' = cfgLock
                 /\ config' = config
       /\ task["sched"].pc = "stopped"
              => /\ task'["sched"] = task["sched"]
                 /\ failures' = failures
                 /\ bus' = bus
                 /\ slot' = slot]_vars

\* run() has returned on a shutdown in the settle delay: a URL is configured
\* and no refresh has left a trace
C12_Witness ==
    /\ shutdown
    /\ task["sched"] = IdleTask("stopped")
    /\ has_image_url(config)
    /\ failures = 0
    /\ slot = None
    /\ bus = <<>>

\* the scheduler is inside refresh_display
InRefresh ==
    task["sched"].pc \in {"read", "download", "init", "init_locked", "display",
                          "display_locked"}

\* C13 (SpecExit): once shutdown has been signalled, a refresh of the
\* scheduler that is in progress runs to completion: the scheduler's task is
\* never dropped inside refresh_display, it goes on until run() returns.
C13_RefreshNotCancelled ==
    [][(shutdown /\ InRefresh) => task'["sched"].pc # "dropped"]_vars


\* the first n responses of the call are failures: no 2xx status, or the
\* request or the reading of the body fails
AllFail(n) ==
    \A i \in 1..n :
       LET r == CallArgs.responses[i]
       IN  r.send = "Err" \/ r.status < 200 \/ r.status >= 300 \/ r.body = None

\* n requests for url, and before each but the first a sleep of
\* retry_delay * 2^(j-1) seconds after j requests
RetrySchedule(url, retry_delay, n) ==
    [i \in 1..(2 * n - 1) |->
       IF i % 2 = 1 THEN <<"get", url>>
       ELSE <<"sleep", retry_delay * 2^((i \div 2) - 1)>>]

\* C14 (SpecDownload): download_with_retry with max_retries = N, all N
\* attempts failing, makes exactly N requests, sleeps retry_delay * 2^(n-1)
\* right before the attempt that follows n attempts, neither before the
\* first nor after the last, and returns the error of the last attempt;
\* when an attempt succeeds, it is the last request and the result is Ok.
C14_RetrySchedule ==
    task[Caller].op = "download_with_retry" =>
       LET N == CallArgs.config.max_retries
           last == CallArgs.responses[N]
       IN  /\ AllFail(N) =>
                /\ bus = RetrySchedule(CallArgs.url, CallArgs.config.retry_delay, N)
                /\ N >= 1 =>
                      task[Caller].res =
                         CASE last.send = "Err" -> "Err(RequestError)"
                           [] last.status = 500 -> "Err(HttpError(500))"
                           [] last.status = 404 -> "Err(HttpError(404))"
                           [] OTHER -> "Err(RequestError)"
           /\ \A k \in 1..N :
                 (AllFail(k - 1) /\ ~AllFail(k)) =>
                    /\ bus = RetrySchedule(CallArgs.url, CallArgs.config.retry_delay, k)
                    /\ task[Caller].res = "Ok"

\* three attempts answered 500, with sleeps of 2 s and 4 s between them
C14_Witness ==
    /\ task[Caller].op = "download_with_retry"
    /\ CallArgs.config = DefaultDownloadConfig
    /\ task[Caller].res = "Err(HttpError(500))"
    /\ bus = << <<"get", UrlA>>, <<"sleep", 2>>, <<"get", UrlA>>, <<"sleep", 4>>,
                <<"get", UrlA>> >>

\* C15 (SpecDownload): download_image_with_config (and download_image) with
\* a URL that is empty or all white space returns EmptyUrl, and makes no
\* request and no sleep.
C15_EmptyUrl ==
    (/\ task[Caller].op \in {"download_image_with_config", "download_image"}
     /\ \A i \in 1..Len(CallArgs.url) : CallArgs.url[i] \in Whitespace)
       => /\ task[Caller].res = "Err(EmptyUrl)"
          /\ bus = <<>>

\* a call with a URL of blanks and three retries has returned EmptyUrl
C15_Witness ==
    /\ task[Caller].op = "download_image_with_config"
    /\ CallArgs.url = BlankUrl
    /\ CallArgs.config.max_retries = 3
    /\ task[Caller].res = "Err(EmptyUrl)"

\* minute m lies in the period: in [start, end) when start < end, and from
\* start to midnight or from midnight to end when end <= start
InPeriod(period, m) ==
    LET start == Unwrap(start_minutes(period))
        end == Unwrap(end_minutes(period))
    IN  IF start < end THEN start <= m /\ m < end
        ELSE m >= start \/ m < end

\* the periods of the plan that minute m lies in
PeriodsAt(plan, m) == {j \in 1..Len(plan.periods) : InPeriod(plan.periods[j], m)}

\* the configuration has just been accepted by load
JustLoaded == task[Caller].pc = "loaded" /\ task[Caller].op = "load"

\* the arguments and the result of the lookup that has returned
Lookup == Unwrap(task[Caller].buf)

\* C16 (SpecLoad): in every plan that validation has accepted, each of the
\* 1,440 minutes of the day lies in exactly one period of the plan: no gap,
\* no overlap (the all-day shorthand 00:00-00:00, accepted without the
\* coverage table, is one period that holds every minute).
C16_ExactCoverage ==
    JustLoaded =>
       \A k \in 1..Len(config.schedule_plans) :
          \A m \in 0..(MinutesPerDay - 1) :
             Cardinality(PeriodsAt(config.schedule_plans[k], m)) = 1

\* a configuration with the three-period plan has been accepted
C16_Witness ==
    /\ JustLoaded
    /\ \E k \in 1..Len(config.schedule_plans) : config.schedule_plans[k] = PlanThree

\* C17 (SpecLoad): on a validated plan get_period_for_time(m) returns a
\* period for every minute m of the day; m lies in that period and in no
\* other period of the plan, so the result is never the first-period
\* fallback.
C17_PeriodForTime ==
    task[Caller].op = "get_period_for_time" =>
       LET plan == config.schedule_plans[Lookup.plan]
       IN  /\ Lookup.period # None
           /\ InPeriod(Unwrap(Lookup.period), Lookup.time_minutes)
           /\ \A j \in 1..Len(plan.periods) :
                 InPeriod(plan.periods[j], Lookup.time_minutes)
                    => plan.periods[j] = Unwrap(Lookup.period)

\* the lookup at 23:59 in the three-period plan has returned its first period
C17_Witness ==
    /\ task[Caller].op = "get_period_for_time"
    /\ config.schedule_plans[Lookup.plan] = PlanThree
    /\ Lookup.time_minutes = 1439
    /\ Lookup.period = Some(PlanThree.periods[1])

\* C18 (SpecLoad): get_interval_for_time(m) returns the interval_min of the
\* period that m lies in, a period being half-open [start, end) and wrapping
\* over midnight when end <= start: with 06:00-22:00 every 30 and
\* 22:00-06:00 every 120, minute 23:30 gives 120, 06:00 gives 30 and 22:00
\* gives 120; with the single period 00:00-00:00 every 60, every minute
\* gives 60.
C18_IntervalForTime ==
    task[Caller].op = "get_interval_for_time" =>
       LET plan == config.schedule_plans[Lookup.plan]
           m == Lookup.time_minutes
       IN  /\ \E j \in PeriodsAt(plan, m) : Lookup.interval = plan.periods[j].interval_min
           /\ plan = PlanDayNight =>
                 /\ m = 23 * 60 + 30 => Lookup.interval = 120
                 /\ m = 6 * 60 => Lookup.interval = 30
                 /\ m = 22 * 60 => Lookup.interval = 120
                 /\ m = 6 * 60 - 1 => Lookup.interval = 120
           /\ plan = default_plan => Lookup.interval = 60

\* the lookup at 22:00 in the day and night plan has returned 120
C18_Witness ==
    /\ task[Caller].op = "get_interval_for_time"
    /\ config.schedule_plans[Lookup.plan] = PlanDayNight
    /\ Lookup.time_minutes = 22 * 60
    /\ Lookup.interval = 120

\* C19 (SpecLoad): in a configuration that validate has accepted the plan
\* names are not empty and differ from one another, and for each of the
\* seven weekdays get_plan_for_day returns a plan, the only one that has
\* the name assigned to the day.
C19_PlansAndDays ==
    /\ JustLoaded =>
          /\ \A k \in 1..Len(config.schedule_plans) : Len(config.schedule_plans[k].name) > 0
          /\ \A k, l \in 1..Len(config.schedule_plans) :
                config.schedule_plans[k].name = config.schedule_plans[l].name => k = l
    /\ task[Caller].op = "get_plan_for_day" =>
          /\ Lookup.plan # None
          /\ Unwrap(Lookup.plan).name = config.day_assignments[Lookup.day]
          /\ Cardinality({k \in 1..Len(config.schedule_plans) :
                            config.schedule_plans[k].name = config.day_assignments[Lookup.day]})
                = 1
          /\ \E k \in 1..Len(config.schedule_plans) :
                config.schedule_plans[k] = Unwrap(Lookup.plan)

\* Sunday's plan of the three-plan configuration is its last plan
C19_Witness ==
    /\ task[Caller].op = "get_plan_for_day"
    /\ Len(config.schedule_plans) = 3
    /\ Lookup.day = "Sunday"
    /\ Lookup.plan = Some(PlanWrap)

\* the file the migration was given
MigratedFile == Unwrap(task[Caller].buf)

\* C20 (SpecLoad): after the migration step of load, before validation, a
\* file with a non-empty legacy schedule or a legacy refresh_interval_min
\* = N, and with the default plans and day assignments, has become a
\* configuration with exactly one plan, named Default, whose periods are the
\* legacy schedule, respectively the one period 00:00-00:00 every N (one of
\* the two when the file has both fields); every weekday is assigned to
\* Default and both legacy fields are empty.
C20_LegacyMigration ==
    task[Caller].pc = "migrated" =>
       LET hasSchedule == MigratedFile.schedule # None /\ MigratedFile.schedule # Some(<<>>)
           hasInterval == MigratedFile.refresh_interval_min # None
           fromSchedule == Unwrap(MigratedFile.schedule)
           fromInterval ==
              <<[start_time |-> <<"0", "0", ":", "0", "0">>,
                 end_time |-> <<"0", "0", ":", "0", "0">>,
                 interval_min |-> Unwrap(MigratedFile.refresh_interval_min)]>>
       IN  (/\ hasSchedule \/ hasInterval
            /\ MigratedFile.schedule_plans = default_schedule_plans
            /\ MigratedFile.day_assignments = default_day_assignments)
              => /\ Len(config.schedule_plans) = 1
                 /\ config.schedule_plans[1].name = <<"D", "e", "f", "a", "u", "l", "t">>
                 /\ \/ hasSchedule /\ config.schedule_plans[1].periods = fromSchedule
                    \/ hasInterval /\ config.schedule_plans[1].periods = fromInterval
                 /\ DOMAIN config.day_assignments = WeekdaySet
                 /\ \A day \in WeekdaySet :
                       config.day_assignments[day] = <<"D", "e", "f", "a", "u", "l", "t">>
                 /\ config.schedule = None
                 /\ config.refresh_interval_min = None

\* the legacy two-period schedule has been migrated
C20_Witness ==
    /\ task[Caller].pc = "migrated"
    /\ MigratedFile.schedule = Some(PlanDayNight.periods)
    /\ MigratedFile.refresh_interval_min = None
    /\ config.schedule_plans = <<SchedulePlan(DefaultName, PlanDayNight.periods)>>
    /\ config.schedule = None

\* the high or low four bits of a byte
HighNibble(byte) == byte \div 16

LowNibble(byte) == byte % 16

\* C21 (SpecDither): dither_image on an all-white image of any size, odd
\* numbers of pixels such as 3 x 3 included, returns, and every nibble of
\* the buffer it returns is the index of White (1).
C21_AllWhite ==
    (/\ task[Caller].op = "dither_image"
     /\ \A k \in DOMAIN CallArgs.img.px : CallArgs.img.px[k] = White)
       => /\ task[Caller].res = "Ok"
          /\ \A k \in DOMAIN bus : HighNibble(bus[k]) = 1 /\ LowNibble(bus[k]) = 1

\* C22 (SpecDither): when dither_image returns, the colour index it chose
\* for the pixel of row-major index i is in byte i / 2 of the buffer, in
\* the high nibble for even i and the low nibble for odd i, for odd as well
\* as even widths.
C22_NibbleOfPixel ==
    (task[Caller].op = "dither_image" /\ task[Caller].res = "Ok")
       => \A i \in 0..(CallArgs.img.width * CallArgs.img.height - 1) :
             /\ i \div 2 < Len(bus)
             /\ CallArgs.chosen[i + 1] =
                   IF i % 2 = 0 THEN HighNibble(bus[i \div 2 + 1])
                   ELSE LowNibble(bus[i \div 2 + 1])


\* the events on the bus are the first steps of `steps`, they stop right
\* before a fallible step, and the error is that step's: BusyTimeout for a
\* busy-wait, Spi for a write
StoppedIn(steps, res) ==
    /\ Len(bus) < Len(steps)
    /\ bus = SubSeq(steps, 1, Len(bus))
    /\ res = IF steps[Len(bus) + 1][1] = "busy" THEN "Err(Display(BusyTimeout))"
             ELSE IF steps[Len(bus) + 1][1] = "spi" THEN "Err(Display(Spi))"
             ELSE "none"

\* C23 (SpecDriver): when a bus write or a busy-wait fails during
\* Epd7in3e::init, init returns that error, puts nothing more on the bus,
\* and the driver is not initialized afterwards, whatever it was before.
C23_FailedInitUninitialized ==
    (task[Caller].op = "init" /\ IsErr(task[Caller].res))
       => /\ StoppedIn(InitSteps, task[Caller].res)
          /\ ~Unwrap(slot).initialized

\* the events of a whole sleep(): POWER_OFF, busy-wait, DEEP_SLEEP with its
\* check byte 0xA5, power-enable low
SleepTrace ==
    << <<"dc", FALSE>>, <<"spi", <<POWER_OFF>>>>, <<"busy">>,
       <<"dc", FALSE>>, <<"spi", <<DEEP_SLEEP>>>>, <<"dc", TRUE>>, <<"spi", <<165>>>>,
       <<"pwr", FALSE>> >>

\* C24 (SpecDriver): a call of Epd7in3e::sleep issues POWER_OFF, waits until
\* ready, issues DEEP_SLEEP and drives power-enable low, in that order, and
\* ends with the driver uninitialized; after sleep has returned the driver
\* is never initialized with power-enable high.
C24_SleepPowersDown ==
    task[Caller].op = "sleep" =>
       /\ task[Caller].res = "Ok" =>
             /\ bus = SleepTrace
             /\ ~Unwrap(slot).initialized
             /\ ~Unwrap(slot).pwr
       /\ ~(Unwrap(slot).initialized /\ Unwrap(slot).pwr)

\* C25 (SpecDriver): when an initialized driver is torn down the sleep
\* sequence is attempted: the bus carries the whole of it, or its events up
\* to the step that failed; and in either case the last event of the
\* teardown drives power-enable low.
C25_TeardownCutsPower ==
    [][(task'[Caller].op = "drop" /\ slot # None /\ Unwrap(slot).initialized)
          => /\ \E k \in 1..Len(SleepTrace) :
                   /\ bus' = SubSeq(SleepTrace, 1, k) \o power_off
                   /\ k < Len(SleepTrace) => IsFallible(SleepTrace[k + 1])
             /\ LastLevel(bus', "pwr", TRUE) = FALSE
             /\ bus'[Len(bus')] = <<"pwr", FALSE>>]_vars

\* an initialized driver was torn down, the POWER_OFF write of its sleep
\* failed, and power-enable was driven low all the same
C25_Witness ==
    /\ task[Caller].op = "drop"
    /\ bus = << <<"dc", FALSE>>, <<"pwr", FALSE>> >>

\* C26 (SpecTransform): transform_image returns an image of exactly
\* target_width x target_height for every source that is not empty, every
\* rotation and mirroring, both orders of the two and both scale modes.
C26_ExactTargetSize ==
    task[Caller].op = "transform_image" =>
       /\ task[Caller].res = "Ok"
       /\ bus = <<CallArgs.options.display_width, CallArgs.options.display_height>>

\* s is two digits, a colon and two digits, the hour at most 23 and the
\* minute at most 59
IsHHMM(s) ==
    /\ Len(s) = 5
    /\ s[3] = ":"
    /\ \A i \in {1, 2, 4, 5} : IsDigit(s[i])
    /\ DigitValue(s[1]) * 10 + DigitValue(s[2]) <= 23
    /\ DigitValue(s[4]) * 10 + DigitValue(s[5]) <= 59

\* C27 (SpecParse): parse_time returns hh * 60 + mm for every text HH:MM
\* with hh <= 23 and mm <= 59, and an error for every other text: an hour or
\* minute out of range, a missing or additional ':' field, a field that is
\* not a number, a field that is not two digits.
C27_ParseTime ==
    task[Caller].op = "parse_time" =>
       IF IsHHMM(CallArgs)
       THEN bus = Some((DigitValue(CallArgs[1]) * 10 + DigitValue(CallArgs[2])) * 60
                       + DigitValue(CallArgs[4]) * 10 + DigitValue(CallArgs[5]))
       ELSE bus = None /\ task[Caller].res = "Err(ValidationError)"

\* an SPI write of a piece of the image buffer: <<"buf", offset, length>>
IsChunk(ev) == ev[1] = "spi" /\ Len(ev[2]) = 3

\* the events of a whole display(): DATA_START, the buffer in pieces of at
\* most CHUNK_SIZE bytes, POWER_ON, busy-wait, DISPLAY_REFRESH [0x00],
\* busy-wait, POWER_OFF [0x00], busy-wait
DisplayTrace ==
    << <<"dc", FALSE>>, <<"spi", <<DATA_START>>>>, <<"dc", TRUE>> >>
    \o BufferChunks(0, BUFFER_SIZE)
    \o << <<"dc", FALSE>>, <<"spi", <<POWER_ON>>>>, <<"busy">>,
          <<"dc", FALSE>>, <<"spi", <<DISPLAY_REFRESH>>>>, <<"dc", TRUE>>, <<"spi", <<0>>>>,
          <<"busy">>,
          <<"dc", FALSE>>, <<"spi", <<POWER_OFF>>>>, <<"dc", TRUE>>, <<"spi", <<0>>>>,
          <<"busy">> >>

\* the pieces written before event j follow one another from offset 0 and
\* end at the end of the buffer
WholeBufferBefore(j) ==
    /\ \E i \in 1..(j - 1) : IsChunk(bus[i]) /\ bus[i][2][2] + bus[i][2][3] = BUFFER_SIZE
    /\ \A i \in 1..(j - 1) :
          (IsChunk(bus[i]) /\ bus[i][2][2] > 0)
             => IsChunk(bus[i - 1]) /\ bus[i - 1][2][2] + bus[i - 1][2][3] = bus[i][2][2]

\* C28 (SpecDriver): a call of Epd7in3e::display that passes its guards and
\* succeeds produces exactly DATA_START, the whole buffer, POWER_ON,
\* busy-wait, DISPLAY_REFRESH, busy-wait, POWER_OFF, busy-wait; when a step
\* fails the trace stops at that step; and DISPLAY_REFRESH is never on the
\* bus before the whole buffer.
C28_DisplayTrace ==
    (/\ task[Caller].op = "display"
     /\ task[Caller].res \notin {"Err(Display(NotInitialized))",
                                 "Err(Display(InvalidBufferSize))"})
       => /\ task[Caller].res = "Ok" => bus = DisplayTrace
          /\ task[Caller].res # "Ok" => StoppedIn(DisplayTrace, task[Caller].res)
          /\ \A j \in 1..Len(bus) :
                bus[j] = <<"spi", <<DISPLAY_REFRESH>>>> => WholeBufferBefore(j)

\* a display() has run to its end
C28_Witness ==
    /\ task[Caller].op = "display"
    /\ task[Caller].res = "Ok"
    /\ Len(bus) = Len(DisplayTrace)
    /\ \E j \in 1..Len(bus) : bus[j] = <<"spi", <<DISPLAY_REFRESH>>>>

\* the command bytes of a trace: what is written right after D/C goes low
Commands(trace) ==
    LET at == SelectSeq([j \in 1..Len(trace) |-> j],
                        LAMBDA j : trace[j] = <<"dc", FALSE>> /\ j < Len(trace))
    IN  [i \in 1..Len(at) |-> trace[at[i] + 1][2][1]]

\* the payload written after the command byte cmd, <<>> when there is none
PayloadOf(trace, cmd) ==
    LET at == SelectSeq([j \in 1..Len(trace) |-> j],
                        LAMBDA j : /\ j > 1
                                   /\ j + 2 <= Len(trace)
                                   /\ trace[j - 1] = <<"dc", FALSE>>
                                   /\ trace[j] = <<"spi", <<cmd>>>>
                                   /\ trace[j + 1] = <<"dc", TRUE>>)
    IN  IF at = <<>> THEN <<>> ELSE trace[at[1] + 2][2]

\* C29 (SpecDriver): a successful Epd7in3e::init produces power-enable high,
\* the reset pulse, a busy-wait, the thirteen commands 0xAA 0x01 0x00 0x03
\* 0x05 0x06 0x08 0x30 0x50 0x60 0x61 0x84 0xE3 each with a payload, then
\* POWER_ON and a busy-wait; the payload of 0x61 is 03 20 01 E0 whatever
\* display size is configured; and the driver becomes initialized only by
\* an init that ran to the end of that trace.
C29_InitTrace ==
    [][(task'[Caller].op = "init" /\ slot # None)
          => /\ task'[Caller].res = "Ok" =>
                   /\ SubSeq(bus', 1, 5) = << <<"pwr", TRUE>>, <<"rst", TRUE>>,
                                              <<"rst", FALSE>>, <<"rst", TRUE>>, <<"busy">> >>
                   /\ Commands(bus') = <<170, 1, 0, 3, 5, 6, 8, 48, 80, 96, 97, 132, 227, 4>>
                   /\ \A cmd \in {170, 1, 0, 3, 5, 6, 8, 48, 80, 96, 97, 132, 227} :
                         PayloadOf(bus', cmd) # <<>>
                   /\ PayloadOf(bus', 97) = <<3, 32, 1, 224>>
                   /\ SubSeq(bus', Len(bus') - 2, Len(bus')) =
                         << <<"dc", FALSE>>, <<"spi", <<4>>>>, <<"busy">> >>
                   /\ Len(bus') = 5 + 13 * 4 + 3
                   /\ Unwrap(slot').initialized
             /\ (~Unwrap(slot).initialized /\ Unwrap(slot').initialized)
                   => task'[Caller].res = "Ok"]_vars

\* an init has succeeded in a program configured for a 100 x 100 display
C29_Witness ==
    /\ task[Caller].op = "init"
    /\ task[Caller].res = "Ok"
    /\ config.display_width = 100
    /\ Unwrap(slot).initialized
    /\ PayloadOf(bus, 97) = <<3, 32, 1, 224>>

\* the caller is inside the loop of wait_busy_timeout
Polling == task[Caller].pc = "polling"

TimedOut == task[Caller].res = "Err(Display(BusyTimeout))"

\* C30 (SpecBusyFair): wait_busy terminates.  A poll that reads the line
\* ready ends the wait with Ok at once, and the operation goes on with its
\* next step; a poll that reads it busy after more than the timeout of 30 s
\* ends the wait with BusyTimeout, so that no wait lasts beyond the timeout
\* and one sleep; and the operation (init, display or sleep) returns that
\* error with nothing more on the bus: the trace stops before the busy-wait
\* that failed, and no command and no wait follows until the next call.
C30_WaitBusyTerminates ==
    /\ [](/\ Polling => CallArgs.elapsed <= BUSY_TIMEOUT_MS + 2 * POLL_INTERVAL_MS
          /\ TimedOut =>
                /\ task[Caller].pc = "returned"
                /\ StoppedIn(OpSteps(task[Caller].op), task[Caller].res)
                /\ CallArgs.elapsed > BUSY_TIMEOUT_MS
                /\ CallArgs.level = "Low")
    /\ [][/\ (Polling /\ task' # task /\ Unwrap(task'[Caller].buf).level = "High")
                => /\ task'[Caller].pc = "running"
                   /\ Unwrap(task'[Caller].buf).at = CallArgs.at + 1
                   /\ bus' = Append(bus, <<"busy">>)
          /\ (Polling /\ task' # task /\ Unwrap(task'[Caller].buf).level = "Low"
              /\ CallArgs.elapsed > BUSY_TIMEOUT_MS)
                => /\ task'[Caller].pc = "returned"
                   /\ task'[Caller].res = "Err(Display(BusyTimeout))"
                   /\ bus' = bus
          /\ (TimedOut /\ task' # task)
                => /\ bus' = <<>>
                   /\ task'[Caller].pc \in {"running", "returned"}
                   /\ Unwrap(task'[Caller].buf).at = 1]_vars
    /\ (Polling ~> ~Polling)

\* the third busy-wait of a display(), the one of the refresh, has timed out
C30_Witness ==
    /\ TimedOut
    /\ task[Caller].op = "display"
    /\ CallArgs.elapsed > BUSY_TIMEOUT_MS
    /\ bus[Len(bus)] = <<"spi", <<0>>>>
    /\ \E j \in 1..Len(bus) : bus[j] = <<"spi", <<DISPLAY_REFRESH>>>>
    /\ \A j \in 1..Len(bus) : bus[j] # <<"spi", <<POWER_OFF>>>>

\* the intervals, in seconds, that the head of the loop can compute in the
\* current state: one for each reading of the clock
IntervalsNow ==
    {get_effective_interval(failures, BaseInterval(config, now[1], now[2])) : now \in Clock}

\* C31 (Spec): the sleep of a loop iteration of run() lasts the interval
\* computed at the head of that iteration from the shared configuration as it
\* is then, the weekday and minute read then and the failure counter as it is
\* then.  Outside the sleep no interval exists (the locals of the previous
\* iteration are gone), and a sleep that has begun keeps its interval
\* whatever is written to the configuration meanwhile.
C31_IntervalPerIteration ==
    /\ [](/\ task["sched"].pc # "sleeping"
             => sched.interval = 0 /\ sched.base_interval = 0
          /\ task["sched"].pc \notin {"sleeping", "settle"} => sched.timer = None
          /\ task["sched"].pc = "sleeping" => sched.timer = Some(sched.interval))
    /\ [][/\ (task["sched"].pc = "compute" /\ task'["sched"].pc = "sleeping")
                => /\ sched'.interval \in IntervalsNow
                   /\ sched'.timer = Some(sched'.interval)
                   /\ config' = config /\ failures' = failures
          /\ (task["sched"].pc = "sleeping" /\ task'["sched"].pc = "sleeping")
                => sched'.interval = sched.interval
          /\ (task["sched"].pc = "sleeping" /\ task'["sched"].pc = "read")
                => task'["sched"].op = "refresh"]_vars

\* the scheduler sleeps the one minute of the plan "Fast", which a form
\* assigned to Sunday after startup
C31_Witness ==
    /\ task["sched"].pc = "sleeping"
    /\ sched.interval = 60
    /\ sched.timer = Some(60)
    /\ get_plan_for_day(config, "Sunday") = Some(PlanFast)

I16_MIN == -32768

I16_MAX == 32767

\* the error that scanline y leaves for column k (from 1) of the scanline
\* below: 3/16 from its right neighbour above, 5/16 from above and 1/16 from
\* its left neighbour above; errs lists the errors of all pixels so far
DiffusedBelow(img, errs, y, k) ==
    LET e(j) == errs[y * img.width + j]
        zero == <<0, 0, 0>>
        right == IF k + 1 <= img.width THEN AddError(zero, e(k + 1), 3) ELSE zero
        above == AddError(right, e(k), 5)
    IN  IF k > 1 THEN AddError(above, e(k - 1), 1) ELSE above

\* C32 (SpecScanline): at the start of every scanline y of dither_image the
\* next-row buffer is all zeros and the current-row buffer holds exactly
\* the error diffused from scanline y - 1, zeros for y = 0; the two rows
\* are as wide as the image; and no i16 of the function ever holds a value
\* outside the i16 range.
C32_TwoRowsOfError ==
    task[Caller].op = "dither_image" /\ task[Caller].pc \in {"scanning", "panicked"} =>
       LET img == CallArgs.img
           s == CallArgs.s
           y == CallArgs.y
       IN  /\ Len(s.curr_row) = img.width /\ Len(s.next_row) = img.width
           /\ I16_MIN <= s.lo /\ s.hi <= I16_MAX
           /\ task[Caller].pc = "scanning" =>
                 /\ \A k \in 1..img.width : s.next_row[k] = <<0, 0, 0>>
                 /\ \A k \in 1..img.width :
                       s.curr_row[k] = IF y = 0 \/ y = img.height THEN <<0, 0, 0>>
                                       ELSE DiffusedBelow(img, s.errs, y - 1, k)

\* the last scanline of a 2 x 3 image is about to start: the row above has
\* left error in the current row, and values below 0 and above 255 have
\* been accumulated on the way
C32_Witness ==
    /\ task[Caller].op = "dither_image" /\ task[Caller].pc = "scanning"
    /\ CallArgs.img.width = 2 /\ CallArgs.img.height = 3
    /\ CallArgs.y = 2
    /\ CallArgs.s.curr_row[1] # <<0, 0, 0>> /\ CallArgs.s.curr_row[2] # <<0, 0, 0>>
    /\ CallArgs.s.lo < 0 /\ CallArgs.s.hi > 255

\* the command codes of the cmd module of epd7in3e.rs
CommandCodes ==
    {CMDH, POWER_SETTING, POWER_OFF, POWER_ON, DEEP_SLEEP, DATA_START, DISPLAY_REFRESH,
     PLL_CONTROL, VCOM_DATA_INTERVAL, TCON_SETTING, RESOLUTION_SETTING, POWER_SAVING,
     PANEL_SETTING, INPUT_DATA, BOOSTER_SOFT_START1, BOOSTER_SOFT_START2,
     BOOSTER_SOFT_START3, UNKNOWN_84}

\* the position of the last setting of the data/command line before event j
\* of the bus trace, 0 if there is none
FrameOf(j) ==
    LET before == {k \in 1..(j - 1) : bus[k][1] = "dc"}
    IN  IF before = {} THEN 0 ELSE CHOOSE k \in before : \A l \in before : l <= k

\* event j is a write of one command code under a line set low just before
IsCommandWrite(j) ==
    /\ j >= 2
    /\ bus[j - 1] = <<"dc", FALSE>>
    /\ bus[j][1] = "spi" /\ Len(bus[j][2]) = 1 /\ bus[j][2][1] \in CommandCodes

\* C33 (SpecDriver): in every driver call each write of SpiDisplay is framed
\* by the setting of the data/command line made just before it.  A write
\* under the line low is one command byte and the setting is the event
\* just before it.  The line is set high only right after a command write,
\* for the payload of
\* that command; the writes under it are that payload alone, either one
\* write just after the setting or, for the image buffer, its pieces of at
\* most CHUNK_SIZE bytes one after the other, with no other event between
\* them.  Every setting is followed at once by a write, unless that write
\* failed and ended the call (in a drop, the power pin is then driven low);
\* GpioController::new alone gives the line its first level with no write.
C33_Framing ==
    /\ \A j \in 1..Len(bus) :
          bus[j][1] = "spi" =>
             LET k == FrameOf(j)
             IN  /\ k > 0
                 /\ bus[k][2] = FALSE => IsCommandWrite(j)
                 /\ bus[k][2] = TRUE =>
                       /\ IsCommandWrite(k - 1)
                       /\ bus[k - 1][2] # <<DATA_START>> => j = k + 1
                       /\ bus[k - 1][2] = <<DATA_START>> =>
                             /\ \A i \in (k + 1)..j : IsChunk(bus[i])
                             /\ bus[k + 1][2][2] = 0
                             /\ \A i \in (k + 2)..j :
                                   bus[i][2][2] = bus[i - 1][2][2] + bus[i - 1][2][3]
    /\ \A k \in 1..Len(bus) :
          bus[k][1] = "dc" =>
             \/ k < Len(bus) /\ bus[k + 1][1] = "spi"
             \/ k = Len(bus) /\ task[Caller].res = "Err(Display(Spi))"
             \/ /\ task[Caller].op = "drop"
                /\ k + 1 = Len(bus) /\ bus[k + 1] = <<"pwr", FALSE>>
             \/ task[Caller].op = "new"

\* a display() has written the whole frame in 47 pieces under one setting of
\* the line, the refresh under three more, and returned Ok
C33_Witness ==
    /\ task[Caller].op = "display" /\ task[Caller].res = "Ok"
    /\ Len(SelectSeq(bus, IsChunk)) = 47
    /\ Len(SelectSeq(bus, LAMBDA ev : ev = <<"dc", TRUE>>)) = 3
    /\ Len(SelectSeq(bus, LAMBDA ev : ev = <<"dc", FALSE>>)) = 4

\* the task holds the panel mutex inside the DisplayController method `pc`
Inside(t, pc) == task[t].pc = pc /\ t \in panel

\* C34 (SpecController): whenever the slot of the DisplayController holds a
\* driver, that driver is initialized.  The slot is filled only by init(),
\* under the mutex, with a driver whose Epd7in3e::init has just run to its
\* end; it is emptied only by sleep(), in the step under the mutex in which
\* Epd7in3e::sleep returned Ok; a failed sleep leaves the driver in the
\* slot, still initialized.  So clear and test_pattern, called through the
\* controller, never run the init() of their own first branch: their
\* traces power nothing on and reset nothing.
C34_SlotHoldsInitialized ==
    /\ [](slot # None => Unwrap(slot).initialized)
    /\ [][/\ (slot = None /\ slot' # None)
                => /\ \E t \in Tasks : Inside(t, "init_locked") /\ t \notin panel'
                   /\ bus' = InitSteps
                   /\ Unwrap(slot').initialized
          /\ (slot # None /\ slot' = None)
                => /\ \E t \in Tasks :
                         Inside(t, "sleep_locked") /\ t \notin panel' /\ task'[t].res = "Ok"
                   /\ bus' = SleepTrace \o power_off
          /\ \A t \in Tasks :
                (Inside(t, "sleep_locked") /\ slot # None /\ IsErr(task'[t].res))
                   => slot' # None /\ Unwrap(slot').initialized
          /\ \A t \in Tasks :
                (/\ \/ Inside(t, "clear_locked")
                    \/ Inside(t, "test_locked")
                    \/ Inside(t, "test2_locked")
                 /\ slot # None /\ t \notin panel')
                   => \A j \in 1..Len(bus') :
                         bus'[j] \notin {<<"pwr", TRUE>>, <<"rst", FALSE>>}]_vars

\* a sleep through the controller has failed at its busy-wait: the driver is
\* still in the slot, initialized, and the panel has not been powered down
C34_Witness ==
    /\ task["web1"].op = "sleep"
    /\ task["web1"].res = "Err(Display(BusyTimeout))"
    /\ slot # None /\ Unwrap(slot).initialized
    /\ bus = write_command(POWER_OFF)

\* C35 (SpecBackoff): for every interval_min in 1..1440 and every failure
\* count the interval run() sleeps is at least the base interval.
C35_BackoffNeverShortens == sched.interval >= sched.base_interval

\* the operations that run process_and_display
RefreshOps == {"refresh", "show", "apply"}

\* C36 (SpecController): process_and_display touches the panel only after
\* download, transform and dither have returned.  A step of a task that is
\* at the URL check or in the download, transform or dither leaves the
\* bus, the driver slot and the panel mutex as they are, whether the step
\* succeeds, fails or panics; and every step that changes the bus or the
\* slot is taken by the holder of the panel mutex, which, if it runs a
\* refresh, holds the dithered buffer.
C36_PanelAfterPipeline ==
    [][/\ \A t \in Tasks :
             (task[t].pc \in {"read", "download"} /\ task'[t] # task[t])
                => bus' = bus /\ slot' = slot /\ panel' = panel
       /\ \A t \in Tasks :
             (task[t].pc = "download"
              /\ task'[t].res \in {"Err(Download)", "panic"})
                => /\ task'[t].pc \notin PanelEntry
                   /\ ~InPanelOp(t)'
       /\ (bus' # bus \/ slot' # slot)
             => \E t \in panel :
                   /\ InPanelOp(t)
                   /\ task[t].op \in RefreshOps => task[t].buf # None]_vars

\* the first scheduled refresh has failed at the download: the failure is
\* counted, the slot is empty and nothing has been on the bus
C36_Witness ==
    /\ task["sched"].res = "Err(Download)"
    /\ failures = 1
    /\ slot = None
    /\ bus = <<>>
    /\ panel = {}

\* the POWER_ON and POWER_OFF commands of a trace, in order
PowerCommands(trace) ==
    SelectSeq([j \in 1..Len(trace) |->
                 IF j >= 2 /\ trace[j - 1] = <<"dc", FALSE>>
                    /\ trace[j] \in {<<"spi", <<POWER_ON>>>>, <<"spi", <<POWER_OFF>>>>}
                 THEN trace[j][2][1] ELSE 0],
              LAMBDA c : c # 0)

\* the last of them, 0 if there is none
LastPowerCommand(trace) ==
    IF PowerCommands(trace) = <<>> THEN 0
    ELSE PowerCommands(trace)[Len(PowerCommands(trace))]

\* C37 (SpecWeb): when process_and_display, clear_display or
\* show_test_pattern returns, with Ok or with an error, the last power
\* command on the bus (of the call that returned or, if that call sent
\* none, of the call before it) is not POWER_ON.
C37_NotLeftPoweredOn ==
    [][\A t \in Tasks :
          (task[t].res = "none" /\ task'[t].res \notin {"none", "panic"})
             => (IF LastPowerCommand(bus') # 0 THEN LastPowerCommand(bus')
                 ELSE LastPowerCommand(bus)) # POWER_ON]_vars

\* the awaits of the configuration lock: read() of refresh_display,
\* save_and_apply and display_action, read() of the rendering, write() of
\* update_config, read() at the head of the loop of run()
ConfigRequests == {"read", "render", "update", "compute"}

\* C38 (SpecLocksFair): the tasks take the two locks in one order.  A task
\* that awaits the configuration lock holds neither the panel mutex nor the
\* configuration lock; a task that awaits the panel mutex does not hold
\* it; a task that holds the panel mutex does not end while holding it.
\* So every request of a lock is granted in the end, whatever the
\* interleaving of the scheduler and the handlers: no task stays at the
\* await of a lock for ever.
C38_LocksGranted ==
    /\ [](\A t \in Tasks :
             /\ task[t].pc \in ConfigRequests => t \notin panel /\ t \notin cfgLock
             /\ task[t].pc \in PanelEntry => t \notin panel
             /\ t \in panel <=> InPanelOp(t)
             /\ t \in cfgLock => task[t].pc \in {"download"} \cup PanelEntry
                                 \/ InPanelOp(t))
    /\ \A t \in Tasks : []<>(task[t].pc \notin ConfigRequests \cup PanelEntry)

\* the handler waits to write the configuration while the scheduler, which
\* holds it for reading, is inside display() under the panel mutex
C38_Witness ==
    /\ task["web1"].pc = "update"
    /\ "sched" \in cfgLock
    /\ task["sched"].pc = "display_locked"
    /\ panel = {"sched"}

\* the task runs process_and_display: it is past the URL check and has not
\* yet returned from the download, the transform, init() or display()
RunsRefresh(t) ==
    /\ task[t].op \in RefreshOps \cup {"trigger"}
    /\ task[t].pc \in {"download", "init", "init_locked", "display", "display_locked"}

\* C39 (Spec): a refresh, scheduled or manual, sees one configuration from
\* start to finish.  A task that runs process_and_display holds the
\* configuration read lock from the URL check until process_and_display
\* returns, and no step taken while a task is in a refresh changes the
\* shared configuration: update_config waits for the write lock.
C39_OneSnapshot ==
    /\ [](\A t \in Tasks : RunsRefresh(t) => t \in cfgLock)
    /\ [][\A t \in Tasks :
             /\ RunsRefresh(t) => config' = config
             /\ (t \in cfgLock /\ t \notin cfgLock') => ~RunsRefresh(t)']_vars

\* update_config waits for the write lock while the scheduled refresh,
\* holding the read lock, is between the URL check and the transform
C39_Witness ==
    /\ task["web1"].pc = "update"
    /\ task["sched"].pc = "download"
    /\ task["sched"].op = "refresh"
    /\ "sched" \in cfgLock

\* C40 (SpecLoad): after the migration step of load, a file that carries
\* both legacy fields, a non-empty schedule and a refresh_interval_min, and
\* the default plans and day assignments, has exactly one plan, named
\* Default, whose periods are the periods of the legacy schedule: the flat
\* interval is discarded, whatever the legacy schedule is.
C40_ScheduleWins ==
    (/\ task[Caller].pc = "migrated"
     /\ MigratedFile.schedule # None
     /\ MigratedFile.schedule # Some(<<>>)
     /\ MigratedFile.refresh_interval_min # None
     /\ MigratedFile.schedule_plans = default_schedule_plans
     /\ MigratedFile.day_assignments = default_day_assignments)
       => config.schedule_plans =
             <<[name |-> <<"D", "e", "f", "a", "u", "l", "t">>,
                periods |-> Unwrap(MigratedFile.schedule)]>>

====
